---------------------------- MODULE Spec2Model ----------------------------
(***************************************************************************)
(* A model of the Koto language core: the lexer with its peek buffer, the  *)
(* parser's capture bookkeeping, the module loader and its cache, the      *)
(* value iterators, and the VM's try/catch/finally handling.               *)
(*                                                                         *)
(* Every subsystem has its own variables, initial condition, actions and   *)
(* specification; the variables of the other subsystems stay idle.         *)
(***************************************************************************)
EXTENDS Integers, Sequences, FiniteSets, TLC

VARIABLES
    \* ---- lexer (src/src/lexer/src/lexer.rs) ----
    source,               \* the input source, a sequence of one-character strings
    lexer,                \* KotoLexer.lexer: the wrapped TokenLexer
    peeked_tokens,        \* KotoLexer.peeked_tokens
    current_peek_index,   \* KotoLexer.current_peek_index (0-based, as in the code)
    plain,                \* history: a TokenLexer on the same source that is never peeked
    returned,             \* history: the last next() call: its number and what it returned
    predicted,            \* history: what peek()/peek_n(k) announced for which next() call
    \* ---- parser and Loader::compile (src/src/parser/src/parser.rs) ----
    script,               \* the source given to the call, a sequence of tokens
    call,                 \* which function was called on it, "none" before the call
    ast,                  \* the result of Parser::parse
    chunk,                \* the result of Loader::compile
    run,                  \* compile_and_run: what was run, and the String returned
    \* ---- loader (src/src/bytecode/src/loader.rs) ----
    chunks,               \* Loader.chunks: the cache, a set of entries key, chunk
    files,                \* the file system: module file -> its contents
    last_load,            \* history: the last call of the Loader and its result
    loads,                \* history: the first chunk returned for each module file
    \* ---- value iterators (src/src/runtime/src/value_iterator.rs) ----
    iterator,             \* the ValueIterator: index and iterable
    shared,               \* what the iterable shares: list or map contents, VM, closure
    iter_log,             \* history: the last next() call and whether one reported exhaustion before
    \* ---- try/catch/finally in the VM ----
    program,              \* the main block, a sequence of AST nodes
    bytecode,             \* the chunk compiled from it
    vm,                   \* the frame: ip, handler records, registers
    throw_log,            \* history: the last throw and the catch it was delivered to
    finally_log,          \* history: try expressions entered, and left without their finally
    \* ---- an iteration over a list or map, and what it collected ----
    iteration,            \* history: the contents at the start, what next() returned, modifications
    \* ---- a copy of the iterator ----
    iterator_copy,        \* the clone of the ValueIterator, NoCopy before it is made
    copy_log,             \* history: what the other iterator would yield before and after an advance
    \* ---- the parser on a source of several lines ----
    text,                 \* the source: its lines, each with its indent and tokens
    layout,               \* what Parser::parse returned for it, and which lines it joined
    \* ---- a closure and its enclosing frame ----
    outer,                \* the registers of the enclosing frame: name -> value
    heap,                 \* the elements of the one list
    callee,               \* the function value of the closure, once constructed
    call_log,             \* the calls made, the results of the last one, the registers at construction
    \* ---- threads calling next() on clones of a generator's iterator ----
    vm_mutex,             \* the Arc<Mutex<Vm>> of the generator: the holder of the lock, and the VM
    callers,              \* each thread: where it is in next(), and the output it is about to return
    deliveries            \* history: the outputs next() has returned, each with its thread

lexvars    == <<source, lexer, peeked_tokens, current_peek_index, plain, returned, predicted>>
parservars == <<script, call, ast, chunk, run>>
loadervars == <<chunks, files, last_load, loads>>
itervars   == <<iterator, shared, iter_log>>
vmvars     == <<program, bytecode, vm, throw_log, finally_log>>
collectvars == <<iteration>>
copyvars   == <<iterator_copy, copy_log>>
layoutvars == <<text, layout>>
closurevars == <<outer, heap, callee, call_log>>
threadvars == <<vm_mutex, callers, deliveries>>
vars       == <<lexvars, parservars, loadervars, itervars, vmvars, collectvars, copyvars, layoutvars, closurevars, threadvars>>

(***************************************************************************)
(* Bounds of the model.                                                    *)
(***************************************************************************)
MaxSourceLen == 4      \* longest source text given to the lexer
MaxPeek      == 2      \* largest k used in peek_n(k)
MaxNext      == 5      \* next() calls made on one lexer
MaxScriptLen == 7      \* longest source (in tokens) given to the parser
MaxVersion   == 2      \* times a module file is written, the first included
MaxListLen   == 2      \* elements of a list or map
MaxIndex     == 3      \* ValueIterator.index
MaxHandlers  == 2      \* handler records in a frame
MaxYields    == 3      \* yields in a generator's body
MaxTemplateLen == 5    \* characters after the ${ of a template
MaxChain     == 3      \* binary operators in one expression
MaxLines     == 3      \* lines of a source of free lines
MaxIndent    == 2      \* largest indent of a line
MaxNumber    == 1      \* largest number assigned to a variable or a list element
MaxBody      == 2      \* lines of a function body
MaxCalls     == 2      \* calls of the closure
MaxPieces    == 4      \* pieces of a source made of words
MaxComment   == 6      \* characters after the opening of a comment
MaxThreadCalls == 3    \* calls of next() by one thread

NoToken == "None"

(***************************************************************************)
(* LEXER: characters.  All characters of the model are ASCII: one byte     *)
(* each.  A control character has no display width.                        *)
(***************************************************************************)
Digits      == {"0", "1", "2", "3", "4", "5", "6", "7", "8", "9"}
BinDigits   == {"0", "1"}
OctDigits   == {"0", "1", "2", "3", "4", "5", "6", "7"}
HexDigits   == Digits \cup {"a", "b", "c", "d", "e", "f", "A", "B", "C", "D", "E", "F"}
WhiteChars  == {" ", "\t"}
Letters     == {"a", "b", "c", "d", "e", "f", "g", "h", "i", "j", "k", "l", "m",
                "n", "o", "p", "q", "r", "s", "t", "u", "v", "w", "x", "y", "z"}
IdStart     == Letters
IdContinue  == Letters \cup Digits \cup {"_"}

Punctuation == {"#", "-", "+", "=", "!", "<", ">", "*", "/", "%", "@", ":", ",", ".",
                "(", ")", "|", "[", "]", "{", "}", "_", "$", "'", "\"", "\\"}
ModelChars  == Letters \cup Digits \cup WhiteChars \cup Punctuation \cup {"\r", "\n"}

Width(c) == IF c \in {"\t", "\n", "\r"} THEN 0 ELSE 1

\* The character at 1-based index i, or "EOF" past the end (chars.peek() == None).
At(src, i) == IF i >= 1 /\ i <= Len(src) THEN src[i] ELSE "EOF"

\* source.get(a..b) as a sequence, a and b 0-based byte offsets; <<"EOF">> when out of range.
Get(src, a, b) == IF b <= Len(src) /\ a <= b THEN SubSeq(src, a + 1, b) ELSE <<"EOF">>

RECURSIVE consume_and_count(_, _, _)
consume_and_count(src, i, pred) ==
    IF At(src, i) \in pred THEN 1 + consume_and_count(src, i + 1, pred) ELSE 0

Position(l, c) == [line |-> l, column |-> c]
SpanDefault == [start |-> Position(1, 1), end |-> Position(1, 1)]

TokenLexerNew ==
    [ previous_byte |-> 0, current_byte |-> 0, indent |-> 0,
      previous_token |-> NoToken, span |-> SpanDefault, string_mode_stack |-> <<>> ]

TokenLexerSlice(lx, src) == SubSeq(src, lx.previous_byte + 1, lx.current_byte)

advance_line_utf8(lx, char_bytes, char_count) ==
    [lx EXCEPT !.previous_byte = lx.current_byte,
               !.current_byte  = lx.current_byte + char_bytes,
               !.span = [start |-> lx.span.end,
                         end   |-> Position(lx.span.end.line,
                                            lx.span.end.column + char_count)]]

advance_line(lx, char_bytes) == advance_line_utf8(lx, char_bytes, char_bytes)

advance_to_position(lx, char_bytes, position) ==
    [lx EXCEPT !.previous_byte = lx.current_byte,
               !.current_byte  = lx.current_byte + char_bytes,
               !.span = [start |-> lx.span.end, end |-> position]]

\* What a consume_* function returns: the lexer it leaves and the token.
Out(lx, tok) == [lx |-> lx, tok |-> tok]


(***************************************************************************)
(* LEXER: TokenLexer, the token functions.                                 *)
(***************************************************************************)
consume_newline(lx, src) ==
    LET i             == lx.current_byte + 1
        has_cr        == At(src, i) = "\r"
        newline_bytes == IF has_cr THEN 2 ELSE 1
        nl            == IF has_cr THEN i + 1 ELSE i
    IN  IF At(src, nl) # "\n"
        THEN Out(lx, "Error")
        ELSE LET consumed_bytes == newline_bytes + consume_and_count(src, nl + 1, WhiteChars)
                 indent         == consumed_bytes - newline_bytes
             IN  Out(advance_to_position([lx EXCEPT !.indent = indent], consumed_bytes,
                                         Position(lx.span.end.line + 1, indent + 1)),
                     IF indent = 0 THEN "NewLine" ELSE "NewLineIndented")

\* The loop of a multi-line comment, from the character at index i on.
RECURSIVE comment_loop(_, _, _, _, _)
comment_loop(src, i, char_bytes, nest_count, position) ==
    LET c  == At(src, i)
        b1 == char_bytes + 1
        p1 == Position(position.line, position.column + Width(c))
        p2 == Position(p1.line, p1.column + 1)
        nl == Position(p1.line + 1, 1)
        done(b, n, p) == [err |-> FALSE, char_bytes |-> b, nest_count |-> n, position |-> p]
    IN  CASE c = "EOF" -> done(char_bytes, nest_count, position)
          [] c = "#" ->
                IF At(src, i + 1) = "-"
                THEN comment_loop(src, i + 2, b1 + 1, nest_count + 1, p2)
                ELSE comment_loop(src, i + 1, b1, nest_count, p1)
          [] c = "-" ->
                IF At(src, i + 1) = "#"
                THEN IF nest_count - 1 = 0
                     THEN done(b1 + 1, 0, p2)
                     ELSE comment_loop(src, i + 2, b1 + 1, nest_count - 1, p2)
                ELSE comment_loop(src, i + 1, b1, nest_count, p1)
          [] c = "\r" ->
                IF At(src, i + 1) # "\n"
                THEN [err |-> TRUE, char_bytes |-> b1, nest_count |-> nest_count, position |-> p1]
                ELSE comment_loop(src, i + 2, b1 + 1, nest_count, nl)
          [] c = "\n" -> comment_loop(src, i + 1, b1, nest_count, nl)
          [] OTHER -> comment_loop(src, i + 1, b1, nest_count, p1)

\* The end of consume_comment for a multi-line comment, r the outcome of its loop.
consume_comment_multi(lx, r) ==
    IF r.err
    THEN Out(lx, "Error")
    ELSE Out(advance_to_position(lx, r.char_bytes, r.position),
             IF r.nest_count = 0 THEN "CommentMulti" ELSE "Error")

consume_comment(lx, src) ==
    LET i == lx.current_byte + 1       \* the '#'
    IN  IF At(src, i + 1) = "-"
        THEN consume_comment_multi(lx, comment_loop(src, i + 1, 1, 1, lx.span.end))
        ELSE LET n == consume_and_count(src, i + 1, ModelChars \ {"\r", "\n"})
                 w == Cardinality({k \in (i + 1)..(i + n) : Width(At(src, k)) = 1})
             IN  Out(advance_line_utf8(lx, n + 1, w + 1), "CommentSingle")

Literal(quote) == [mode |-> "Literal", quote |-> quote]
TemplateStart == [mode |-> "TemplateStart", quote |-> ""]
TemplateExpression == [mode |-> "TemplateExpression", quote |-> ""]
TemplateExpressionInlineMap == [mode |-> "TemplateExpressionInlineMap", quote |-> ""]

Last(s) == s[Len(s)]
Pop(s)  == SubSeq(s, 1, Len(s) - 1)

\* The loop of consume_string_literal, from the character at index i on.
RECURSIVE string_loop(_, _, _, _, _)
string_loop(src, i, string_quote, string_bytes, position) ==
    LET c == At(src, i)
        step(n, p) == string_loop(src, i + n, string_quote, string_bytes + n, p)
    IN  CASE c = "EOF" -> [tok |-> "Error", string_bytes |-> string_bytes, position |-> position]
          [] c = string_quote \/ c = "$" ->
                [tok |-> "StringLiteral", string_bytes |-> string_bytes, position |-> position]
          [] c = "\\" ->
                IF At(src, i + 1) \in {"$", "\\", string_quote}
                THEN step(2, Position(position.line, position.column + 2))
                ELSE step(1, Position(position.line, position.column + 1))
          [] c = "\r" ->
                IF At(src, i + 1) # "\n"
                THEN [tok |-> "Error", string_bytes |-> string_bytes, position |-> position]
                ELSE step(2, Position(position.line + 1, 1))
          [] c = "\n" -> step(1, Position(position.line + 1, 1))
          [] OTHER -> step(1, Position(position.line, position.column + Width(c)))

\* The end of consume_string_literal, r the outcome of its loop.
consume_string_literal_end(lx, r) ==
    IF r.tok = "Error"
    THEN Out(lx, "Error")
    ELSE Out(advance_to_position(lx, r.string_bytes, r.position), "StringLiteral")

consume_string_literal(lx, src) ==
    IF lx.string_mode_stack = <<>> \/ Last(lx.string_mode_stack).mode # "Literal"
    THEN Out(lx, "Error")
    ELSE consume_string_literal_end(lx,
             string_loop(src, lx.current_byte + 1, Last(lx.string_mode_stack).quote,
                         0, lx.span.end))

\* consume_number after the integer digits: j is the index of the character after
\* them; the result says whether the function returns early.
consume_number_prefix(src, j, digits, has_leading_zero) ==
    LET c             == At(src, j)
        prefixed(set) == [ret |-> FALSE,
                          char_bytes |-> digits + 1 + consume_and_count(src, j + 1, set),
                          allow_exponent |-> FALSE]
        early         == [ret |-> TRUE, char_bytes |-> digits, allow_exponent |-> TRUE]
        fraction      == [ret |-> FALSE,
                          char_bytes |-> digits + 1 + consume_and_count(src, j + 1, Digits),
                          allow_exponent |-> TRUE]
    IN  CASE c = "b" /\ has_leading_zero /\ digits = 1 -> prefixed(BinDigits)
          [] c = "o" /\ has_leading_zero /\ digits = 1 -> prefixed(OctDigits)
          [] c = "x" /\ has_leading_zero /\ digits = 1 -> prefixed(HexDigits)
          [] c = "." ->
                IF At(src, j + 1) \in Digits THEN fraction
                ELSE IF At(src, j + 1) = "e"
                     THEN IF At(src, j + 2) \in Digits \cup {"+", "-"} THEN fraction ELSE early
                     ELSE early
          [] OTHER -> [ret |-> FALSE, char_bytes |-> digits, allow_exponent |-> TRUE]

\* consume_number from the exponent on: k is the index of the character after the
\* r.char_bytes bytes consumed so far.
consume_number_exponent(lx, src, k, r) ==
    LET sign == IF At(src, k + 1) \in {"+", "-"} THEN 1 ELSE 0
    IN  IF ~r.ret /\ At(src, k) = "e" /\ r.allow_exponent
        THEN Out(advance_line(lx, r.char_bytes + 1 + sign
                                  + consume_and_count(src, k + 1 + sign, Digits)), "Number")
        ELSE Out(advance_line(lx, r.char_bytes), "Number")

consume_number_digits(lx, src, i, r) == consume_number_exponent(lx, src, i + r.char_bytes, r)

consume_number_from(lx, src, i, digits) ==
    consume_number_digits(lx, src, i,
        consume_number_prefix(src, i + digits, digits, At(src, i) = "0"))

consume_number(lx, src) ==
    consume_number_from(lx, src, lx.current_byte + 1,
                        consume_and_count(src, lx.current_byte + 1, Digits))

\* The keywords checked by check_keyword!, with their tokens ("else" is handled apart).
Keywords ==
    { <<<<"a","n","d">>, "And">>, <<<<"b","r","e","a","k">>, "Break">>,
      <<<<"c","a","t","c","h">>, "Catch">>, <<<<"c","o","n","t","i","n","u","e">>, "Continue">>,
      <<<<"d","e","b","u","g">>, "Debug">>, <<<<"e","x","p","o","r","t">>, "Export">>,
      <<<<"f","a","l","s","e">>, "False">>, <<<<"f","i","n","a","l","l","y">>, "Finally">>,
      <<<<"f","o","r">>, "For">>, <<<<"f","r","o","m">>, "From">>, <<<<"i","f">>, "If">>,
      <<<<"i","m","p","o","r","t">>, "Import">>, <<<<"i","n">>, "In">>,
      <<<<"l","o","o","p">>, "Loop">>, <<<<"m","a","t","c","h">>, "Match">>,
      <<<<"n","o","t">>, "Not">>, <<<<"n","u","m","2">>, "Num2">>, <<<<"n","u","m","4">>, "Num4">>,
      <<<<"o","r">>, "Or">>, <<<<"r","e","t","u","r","n">>, "Return">>,
      <<<<"s","w","i","t","c","h">>, "Switch">>, <<<<"t","h","e","n">>, "Then">>,
      <<<<"t","h","r","o","w">>, "Throw">>, <<<<"t","r","u","e">>, "True">>,
      <<<<"t","r","y">>, "Try">>, <<<<"u","n","t","i","l">>, "Until">>,
      <<<<"w","h","i","l","e">>, "While">>, <<<<"y","i","e","l","d">>, "Yield">> }

consume_id_or_keyword(lx, src) ==
    LET cb         == lx.current_byte
        char_bytes == 1 + consume_and_count(src, cb + 2, IdContinue)
        id         == Get(src, cb, cb + char_bytes)
        kw         == {k \in Keywords : k[1] = id}
    IN  IF id = <<"e","l","s","e">>
        THEN IF Get(src, cb, cb + char_bytes + 3) = <<"e","l","s","e"," ","i","f">>
             THEN Out(advance_line(lx, 7), "ElseIf")
             ELSE Out(advance_line(lx, 4), "Else")
        ELSE IF lx.previous_token # "Dot" /\ kw # {}
             THEN Out(advance_line(lx, char_bytes), (CHOOSE k \in kw : TRUE)[2])
             ELSE Out(advance_line_utf8(lx, char_bytes, char_bytes), "Id")

\* The symbols of check_symbol!, in the order the code tries them.
Symbols ==
    << <<<<".",".",".">>, "Ellipsis">>, <<<<".",".","=">>, "RangeInclusive">>,
       <<<<".",".">>, "Range">>, <<<<">",">">>, "Pipe">>,
       <<<<"=","=">>, "Equal">>, <<<<"!","=">>, "NotEqual">>,
       <<<<">","=">>, "GreaterOrEqual">>, <<<<"<","=">>, "LessOrEqual">>,
       <<<<">">>, "Greater">>, <<<<"<">>, "Less">>,
       <<<<"+","=">>, "AssignAdd">>, <<<<"-","=">>, "AssignSubtract">>,
       <<<<"*","=">>, "AssignMultiply">>, <<<<"/","=">>, "AssignDivide">>,
       <<<<"%","=">>, "AssignModulo">>, <<<<"=">>, "Assign">>,
       <<<<"+">>, "Add">>, <<<<"-">>, "Subtract">>, <<<<"*">>, "Multiply">>,
       <<<<"/">>, "Divide">>, <<<<"%">>, "Modulo">>,
       <<<<"@">>, "At">>, <<<<":">>, "Colon">>, <<<<",">>, "Comma">>, <<<<".">>, "Dot">>,
       <<<<"(">>, "RoundOpen">>, <<<<")">>, "RoundClose">>, <<<<"|">>, "Function">>,
       <<<<"[">>, "SquareOpen">>, <<<<"]">>, "SquareClose">>,
       <<<<"{">>, "CurlyOpen">>, <<<<"}">>, "CurlyClose">>, <<<<"_">>, "Wildcard">> >>

StartsWith(src, cb, seq) == Get(src, cb, cb + Len(seq)) = seq

\* consume_symbol: None is the token NoToken, and then the lexer has not moved.
consume_symbol(lx, src) ==
    LET hits == {n \in 1..Len(Symbols) : StartsWith(src, lx.current_byte, Symbols[n][1])}
    IN  IF hits = {}
        THEN Out(lx, NoToken)
        ELSE LET n == CHOOSE n \in hits : \A m \in hits : n <= m
             IN  Out(advance_line(lx, Len(Symbols[n][1])), Symbols[n][2])

\* TokenLexer::next keeps the token it returns as previous_token.
set_previous_token(result) ==
    Out([result.lx EXCEPT !.previous_token = result.tok], result.tok)

get_next_token_result(lx, src) ==
    LET next_char   == At(src, lx.current_byte + 1)
        stack       == lx.string_mode_stack
        string_mode == IF stack = <<>> THEN "None" ELSE Last(stack).mode
        push(l, m)  == [l EXCEPT !.string_mode_stack = Append(l.string_mode_stack, m)]
        pop(l)      == [l EXCEPT !.string_mode_stack = Pop(l.string_mode_stack)]
    IN      IF next_char = "EOF" THEN Out(lx, NoToken)
            ELSE CASE string_mode = "Literal" ->
                        LET quote == Last(stack).quote
                        IN  CASE next_char = "\"" /\ quote = "\"" -> Out(pop(advance_line(lx, 1)), "DoubleQuote")
                              [] next_char = "'" /\ quote = "'" -> Out(pop(advance_line(lx, 1)), "SingleQuote")
                              [] next_char = "$" -> Out(push(advance_line(lx, 1), TemplateStart), "Dollar")
                              [] OTHER -> consume_string_literal(lx, src)
                   [] string_mode = "TemplateStart" ->
                        IF next_char \in IdStart
                        THEN LET r == consume_id_or_keyword(lx, src)
                             IN  IF r.tok = "Id" THEN Out(pop(r.lx), "Id") ELSE Out(r.lx, "Error")
                        ELSE IF next_char = "{"
                             THEN Out(push(pop(advance_line(lx, 1)), TemplateExpression), "CurlyOpen")
                             ELSE Out(lx, "Error")
                   [] OTHER ->
                        CASE next_char \in WhiteChars ->
                                Out(advance_line(lx, consume_and_count(src, lx.current_byte + 1, WhiteChars)),
                                    "Whitespace")
                          [] next_char \in {"\r", "\n"} -> consume_newline(lx, src)
                          [] next_char = "#" -> consume_comment(lx, src)
                          [] next_char = "\"" -> Out(push(advance_line(lx, 1), Literal("\"")), "DoubleQuote")
                          [] next_char = "'" -> Out(push(advance_line(lx, 1), Literal("'")), "SingleQuote")
                          [] next_char \in Digits -> consume_number(lx, src)
                          [] next_char \in IdStart -> consume_id_or_keyword(lx, src)
                          [] OTHER ->
                                LET s == consume_symbol(lx, src)
                                    t == IF s.tok = NoToken THEN "Error" ELSE s.tok
                                IN  CASE t = "CurlyOpen" /\ string_mode = "TemplateExpression" ->
                                            Out(push(s.lx, TemplateExpressionInlineMap), t)
                                      [] t = "CurlyClose" /\ string_mode \in {"TemplateExpression",
                                                                "TemplateExpressionInlineMap"} ->
                                            Out(pop(s.lx), t)
                                      [] OTHER -> Out(s.lx, t)

get_next_token(lx, src) == set_previous_token(get_next_token_result(lx, src))

(***************************************************************************)
(* LEXER: KotoLexer, the TokenLexer with its buffer of peeked tokens.      *)
(* A KotoLexer value is a record of its three fields.                      *)
(***************************************************************************)
KotoLexerNew ==
    [lexer |-> TokenLexerNew, peeked_tokens |-> <<>>, current_peek_index |-> 0]

\* Mutant of peek_n_push: the properties are read after the token is taken.
push_peeked_late(k, src, r) ==
    [k EXCEPT !.lexer = r.lx,
              !.peeked_tokens = Append(k.peeked_tokens,
                  [ token |-> r.tok,
                    slice |-> TokenLexerSlice(r.lx, src),
                    span |-> r.lx.span,
                    indent |-> r.lx.indent,
                    source_position |-> r.lx.current_byte ])]

peek_n_push_late(k, src) == push_peeked_late(k, src, get_next_token(k.lexer, src))

\* One pass of the loop of peek_n: the properties are read before the token is taken.
push_peeked(k, src, r) ==
    [k EXCEPT !.lexer = r.lx,
              !.peeked_tokens = Append(k.peeked_tokens,
                  [ token |-> r.tok,
                    slice |-> TokenLexerSlice(k.lexer, src),
                    span |-> k.lexer.span,
                    indent |-> k.lexer.indent,
                    source_position |-> k.lexer.current_byte ])]

peek_n_push(k, src) == push_peeked(k, src, get_next_token(k.lexer, src))

RECURSIVE peek_n_fill(_, _, _)
peek_n_fill(k, n, src) ==
    IF Len(k.peeked_tokens) - k.current_peek_index <= n
    THEN peek_n_fill(peek_n_push(k, src), n, src)
    ELSE k

\* peek_n: the lexer it leaves and the token it returns.
peeked_at(k, n) == [k |-> k, tok |-> k.peeked_tokens[k.current_peek_index + n + 1].token]

peek_n(k, n, src) == peeked_at(peek_n_fill(k, n, src), n)

\* Mutant of peek: the buffered token is read at index 0, not at current_peek_index.
peek_at_front(k, src) ==
    IF k.peeked_tokens = <<>>
    THEN peek_n(k, 0, src)
    ELSE [k |-> k, tok |-> k.peeked_tokens[1].token]

peek(k, src) ==
    IF k.peeked_tokens = <<>>
    THEN peek_n(k, 0, src)
    ELSE [k |-> k, tok |-> k.peeked_tokens[k.current_peek_index + 1].token]

\* next() on an empty buffer: the wrapped lexer's next(), r its outcome.
from_lexer(k, r) == [k |-> [k EXCEPT !.lexer = r.lx], tok |-> r.tok]

\* Iterator::next of KotoLexer.
KotoLexerNext(k, src) ==
    IF k.peeked_tokens = <<>>
    THEN from_lexer(k, get_next_token(k.lexer, src))
    ELSE LET result == k.peeked_tokens[k.current_peek_index + 1].token
             index  == k.current_peek_index + 1
         IN  IF index = Len(k.peeked_tokens)
             THEN [k |-> [k EXCEPT !.peeked_tokens = <<>>, !.current_peek_index = 0], tok |-> result]
             ELSE [k |-> [k EXCEPT !.current_peek_index = index], tok |-> result]

span(k) ==
    IF k.peeked_tokens = <<>> THEN k.lexer.span
    ELSE k.peeked_tokens[k.current_peek_index + 1].span

slice(k, src) ==
    IF k.peeked_tokens = <<>> THEN TokenLexerSlice(k.lexer, src)
    ELSE k.peeked_tokens[k.current_peek_index + 1].slice

current_indent(k) ==
    IF k.peeked_tokens = <<>> THEN k.lexer.indent
    ELSE k.peeked_tokens[k.current_peek_index + 1].indent

source_position(k) ==
    IF k.peeked_tokens = <<>> THEN k.lexer.current_byte
    ELSE k.peeked_tokens[k.current_peek_index + 1].source_position

(***************************************************************************)
(* LEXER: the state machine.  A client (the parser) calls peek, peek_n and *)
(* next in any order on a source drawn from the bounded set of sources.    *)
(***************************************************************************)
LexAlphabet == {"a", " ", "\n", "'"}
LexSources  == UNION {[1..n -> LexAlphabet] : n \in 0..MaxSourceLen}

Koto == [lexer |-> lexer, peeked_tokens |-> peeked_tokens,
         current_peek_index |-> current_peek_index]

Unannounced == [token |-> "?", far |-> FALSE]

\* Before the first next() call.
NothingReturned ==
    [count |-> 0, token |-> "?", plain |-> "?", announced |-> Unannounced]

SetKoto(k) ==
    /\ lexer' = k.lexer
    /\ peeked_tokens' = k.peeked_tokens
    /\ current_peek_index' = k.current_peek_index

\* predicted[j] is what the peeks have announced for the j-th next() call from now
\* (far: announced by a peek_n(n) with n >= 1).  Two announcements for one call that
\* differ are kept as a conflict.
Announce(j, tok, n) ==
    LET padded == [i \in 1..(IF j > Len(predicted) THEN j ELSE Len(predicted)) |->
                      IF i <= Len(predicted) THEN predicted[i] ELSE Unannounced]
        was    == padded[j]
    IN  [padded EXCEPT ![j] =
            IF was.token \in {"?", tok}
            THEN [token |-> tok, far |-> was.far \/ n >= 1]
            ELSE [token |-> "conflict", far |-> was.far \/ n >= 1]]

\* The state after a peek: r is what the call left and returned, n its argument.
Peeked(r, n) ==
    /\ SetKoto(r.k)
    /\ predicted' = Announce(n + 1, r.tok, n)
    /\ UNCHANGED <<source, plain, returned>>

CallPeek == Peeked(peek(Koto, source), 0)

CallPeekN == \E n \in 0..MaxPeek : Peeked(peek_n(Koto, n, source), n)

\* The state after next(): the history keeps the token returned (r), the token the
\* never-peeked lexer returns for the same call (p), and what had been announced.
Returned(r, p) ==
    /\ SetKoto(r.k)
    /\ plain' = p.lx
    /\ returned' =
           [ count |-> returned.count + 1,
             token |-> r.tok, plain |-> p.tok,
             announced |-> IF predicted = <<>> THEN Unannounced ELSE Head(predicted) ]
    /\ predicted' = IF predicted = <<>> THEN <<>> ELSE Tail(predicted)
    /\ UNCHANGED source

CallNext ==
    /\ returned.count < MaxNext
    /\ Returned(KotoLexerNext(Koto, source), get_next_token(plain, source))

(***************************************************************************)
(* PARSER.  The parser reads the lexer's significant tokens; the model     *)
(* gives it a one-line source in which a single space separates every two  *)
(* tokens, so that peeking past whitespace always finds the next token and *)
(* an identifier followed by a term is a space-separated call.  Tokens:    *)
(* the identifiers (each token is its own slice), Assign, Add, Function    *)
(* (the bar of a function's arguments) and the lexer's Error.              *)
(***************************************************************************)
Ids          == {"x", "y"}
ParserTokens == Ids \cup {"Assign", "Add", "Function", "Error"}
Scripts      == UNION {[1..n -> ParserTokens] : n \in 0..MaxScriptLen}

\* ---- the Ast nodes the model's sources produce ----
NoNode == [node |-> "None"]
Id(id) == [node |-> "Id", id |-> id]
NamedCall(id, args) == [node |-> "NamedCall", id |-> id, args |-> args]
BinaryOp(op, lhs, rhs) == [node |-> "BinaryOp", op |-> op, lhs |-> lhs, rhs |-> rhs]
Assign(target, expression) == [node |-> "Assign", target |-> target, expression |-> expression]
MainBlock(body, local_count) == [node |-> "MainBlock", body |-> body, local_count |-> local_count]
Function(args, local_count, accessed_non_locals, body) ==
    [ node |-> "Function", args |-> args, local_count |-> local_count,
      accessed_non_locals |-> accessed_non_locals, body |-> body ]

\* ---- Frame ----
FrameDefault ==
    [ ids_assigned_in_scope |-> {}, accessed_non_locals |-> {},
      pending_accesses |-> {}, pending_assignments |-> {} ]

local_count(frame) == Cardinality(frame.ids_assigned_in_scope)

add_id_access(frame, id) == [frame EXCEPT !.pending_accesses = @ \cup {id}]

remove_id_access(frame, id) == [frame EXCEPT !.pending_accesses = @ \ {id}]

add_id_assignment(frame, id) == [frame EXCEPT !.pending_assignments = @ \cup {id}]

\* Mutant of add_nested_accessed_non_locals: only the names the nested function has
\* as arguments are declared.
add_nested_accessed_non_locals_of_arguments(frame, nested_frame) ==
    [frame EXCEPT !.pending_accesses =
        @ \cup {non_local \in nested_frame.accessed_non_locals :
                    /\ non_local \notin frame.pending_assignments
                    /\ non_local \in nested_frame.ids_assigned_in_scope}]

add_nested_accessed_non_locals(frame, nested_frame) ==
    [frame EXCEPT !.pending_accesses =
        @ \cup {non_local \in nested_frame.accessed_non_locals :
                    non_local \notin frame.pending_assignments}]

\* Mutant of finish_expression: every pending access becomes a non-local access.
finish_expression_unchecked(frame) ==
    [frame EXCEPT !.accessed_non_locals = @ \cup frame.pending_accesses,
                  !.pending_accesses = {},
                  !.ids_assigned_in_scope = @ \cup frame.pending_assignments,
                  !.pending_assignments = {}]

finish_expression(frame) ==
    [frame EXCEPT !.accessed_non_locals =
                      @ \cup {id \in frame.pending_accesses : id \notin frame.ids_assigned_in_scope},
                  !.pending_accesses = {},
                  !.ids_assigned_in_scope = @ \cup frame.pending_assignments,
                  !.pending_assignments = {}]

\* ---- Parser: its state, and the result of a parse function ----
\* source: the tokens; consumed: how many the lexer has handed out; functions: the
\* Function nodes pushed to the Ast; error: the ParserError a function returned with.
\* History: recorded, for each access and assignment added to a frame, the number of
\* tokens consumed by then and the length of the frame stack.
ParserNew(tokens) ==
    [source |-> tokens, consumed |-> 0, frame_stack |-> <<>>, functions |-> {}, error |-> "none",
     recorded |-> {}]

\* Ok(Some(node)), or Ok(None) when node is NoNode.
Some(p, node) == [p |-> p, node |-> node]

\* Err(error): syntax_error!, indentation_error! and internal_error!.
parser_error(p, error) == [p |-> [p EXCEPT !.error = error], node |-> NoNode]

\* The ? operator: an Err is returned at once, an Ok result is handed on.
Propagate(result, Continue(_)) ==
    IF result.p.error # "none" THEN result ELSE Continue(result)

frame(p) == p.frame_stack[Len(p.frame_stack)]

frame_mut(p, new_frame) == [p EXCEPT !.frame_stack[Len(p.frame_stack)] = new_frame]

\* History of a call on frame_mut that adds an access or an assignment.
Recorded(p, kind) ==
    [p EXCEPT !.recorded =
        @ \cup {[at |-> p.consumed, kind |-> kind, depth |-> Len(p.frame_stack)]}]

peek_token(p) ==
    IF p.consumed < Len(p.source) THEN p.source[p.consumed + 1] ELSE NoToken

consume_token(p) ==
    IF p.consumed < Len(p.source) THEN [p EXCEPT !.consumed = @ + 1] ELSE p

peek_next_token(p) == peek_token(p)

peek_next_token_on_same_line(p) == peek_token(p)

consume_next_token(p) == consume_token(p)

consume_next_token_on_same_line(p) == consume_token(p)

MIN_PRECEDENCE_AFTER_PIPE == 3

\* Mutant of operator_precedence: the comparisons group to the left like the others.
operator_precedence_left(op) ==
    CASE op = "Pipe"                                               -> <<1, 2>>
      [] op = "Or"                                                 -> <<MIN_PRECEDENCE_AFTER_PIPE, 4>>
      [] op = "And"                                                -> <<5, 6>>
      [] op \in {"Equal", "NotEqual"}                              -> <<7, 8>>
      [] op \in {"Greater", "GreaterOrEqual", "Less", "LessOrEqual"} -> <<9, 10>>
      [] op \in {"Add", "Subtract"}                                -> <<11, 12>>
      [] op \in {"Multiply", "Divide", "Modulo"}                   -> <<13, 14>>
      [] OTHER                                                     -> <<>>

\* Some((left_priority, right_priority)), or <<>> for None.
operator_precedence(op) ==
    CASE op = "Pipe"                                               -> <<1, 2>>
      [] op = "Or"                                                 -> <<MIN_PRECEDENCE_AFTER_PIPE, 4>>
      [] op = "And"                                                -> <<5, 6>>
      [] op \in {"Equal", "NotEqual"}                              -> <<8, 7>>
      [] op \in {"Greater", "GreaterOrEqual", "Less", "LessOrEqual"} -> <<10, 9>>
      [] op \in {"Add", "Subtract"}                                -> <<11, 12>>
      [] op \in {"Multiply", "Divide", "Modulo"}                   -> <<13, 14>>
      [] OTHER                                                     -> <<>>

RECURSIVE parse_line(_)
RECURSIVE parse_expressions(_)
RECURSIVE parse_expression_with_min_precedence(_, _)
RECURSIVE parse_expression_start(_, _, _)
RECURSIVE parse_expression_continued(_, _, _)
RECURSIVE parse_assign_expression(_, _)
RECURSIVE parse_term(_)
RECURSIVE parse_id_expression(_)
RECURSIVE parse_call_args(_)
RECURSIVE parse_function(_)

\* Mutant of parse_function_end: the frame of the body stays on the stack.
parse_function_end_keeping_frame(p, arg_ids, body) ==
    Some([p EXCEPT !.functions =
              @ \cup {Function(arg_ids, local_count(frame(p)), frame(p).accessed_non_locals, body)}],
         Function(arg_ids, local_count(frame(p)), frame(p).accessed_non_locals, body))

\* The end of parse_function: the frame of the body is popped, its non-local accesses
\* are declared in the enclosing frame, and the Function node is pushed.
parse_function_end(p, arg_ids, body) ==
    LET function_frame == frame(p)
        popped == [p EXCEPT !.frame_stack = Pop(p.frame_stack)]
        node   == Function(arg_ids, local_count(function_frame),
                           function_frame.accessed_non_locals, body)
    IN  IF popped.frame_stack = <<>>
        THEN parser_error(popped, "MissingScope")
        ELSE Some([frame_mut(popped, add_nested_accessed_non_locals(frame(popped), function_frame))
                      EXCEPT !.functions = @ \cup {node}],
                  node)

\* parse_function from the end of the arguments on.  A body on the line of the
\* arguments is no indented block: it is parsed by parse_line.
parse_function_body(p, arg_ids) ==
    IF peek_token(p) # "Function"
    THEN parser_error(consume_next_token(p), "ExpectedFunctionArgsEnd")
    ELSE Propagate(
             parse_line([consume_next_token(p) EXCEPT !.frame_stack =
                 Append(@, [FrameDefault EXCEPT !.ids_assigned_in_scope =
                                {arg_ids[i] : i \in DOMAIN arg_ids}])]),
             LAMBDA body :
                 IF body.node.node = "None"
                 THEN parser_error(body.p, "FunctionBody")
                 ELSE parse_function_end(body.p, arg_ids, body.node))

\* The arguments of parse_function.  Without a Comma there is at most one.
parse_function(p) ==
    LET args_start == consume_next_token_on_same_line(p)
    IN  IF peek_token(p) # "Function"
        THEN parser_error(args_start, "FunctionParseFailure")
        ELSE IF peek_next_token(args_start) \in Ids
             THEN parse_function_body(consume_next_token(args_start),
                                      <<peek_next_token(args_start)>>)
             ELSE parse_function_body(args_start, <<>>)

parse_line(p) ==
    Propagate(parse_expressions(p),
              LAMBDA result : Some(frame_mut(result.p, finish_expression(frame(result.p))),
                                   result.node))

\* The model's sources have no Comma: the first expression is the only one.
parse_expressions(p) == parse_expression_with_min_precedence(p, 0)

\* The model's sources have no Range after the expression.
parse_expression_with_min_precedence(p, min_precedence) ==
    parse_expression_start(p, <<>>, min_precedence)

parse_expression_start(p, lhs, min_precedence) ==
    Propagate(parse_term(p),
              LAMBDA expression_start :
                  IF expression_start.node.node = "None"
                  THEN expression_start
                  ELSE parse_expression_continued(expression_start.p,
                           Append(lhs, expression_start.node), min_precedence))

\* parse_expression_continued once the operator is consumed.
parse_rhs_expression(p, op, last_lhs, min_precedence, right_priority) ==
    IF peek_next_token(p) = NoToken
    THEN parser_error(p, "RhsExpression")
    ELSE Propagate(parse_expression_start(p, <<>>, right_priority),
                   LAMBDA rhs :
                       IF rhs.node.node = "None"
                       THEN parser_error(rhs.p, "RhsExpression")
                       ELSE parse_expression_continued(rhs.p, <<BinaryOp(op, last_lhs, rhs.node)>>,
                                                       min_precedence))

parse_expression_continued(p, lhs, min_precedence) ==
    LET next == peek_next_token(p)
    IN  IF lhs = <<>>
        THEN parser_error(p, "MissingContinuedExpressionLhs")
        ELSE IF next = "Assign"
             THEN parse_assign_expression(p, lhs)
             ELSE IF operator_precedence(next) # <<>>
                     /\ operator_precedence(next)[1] >= min_precedence
                  THEN parse_rhs_expression(consume_next_token(p), next, Last(lhs), min_precedence,
                                            operator_precedence(next)[2])
                  ELSE Some(p, Last(lhs))

\* The loop of parse_assign_expression over the lhs expressions, from the i-th on.
RECURSIVE assign_targets(_, _, _)
assign_targets(p, lhs, i) ==
    IF i > Len(lhs)
    THEN p
    ELSE IF lhs[i].node = "Id"
         THEN assign_targets(
                  Recorded(frame_mut(p, remove_id_access(add_id_assignment(frame(p), lhs[i].id),
                                                         lhs[i].id)),
                           "assignment"),
                  lhs, i + 1)
         ELSE [p EXCEPT !.error = "ExpectedAssignmentTarget"]

\* parse_assign_expression once the targets are recorded: the right-hand side.
parse_assign_rhs(p, lhs) ==
    IF p.error # "none"
    THEN Some(p, NoNode)
    ELSE Propagate(parse_expressions(p),
                   LAMBDA rhs :
                       IF rhs.node.node = "None"
                       THEN parser_error(rhs.p, "RhsExpression")
                       ELSE Some(rhs.p, Assign(lhs[1], rhs.node)))

parse_assign_expression(p, lhs) ==
    parse_assign_rhs(assign_targets(consume_next_token(p), lhs, 1), lhs)

parse_term(p) ==
    LET peeked == peek_next_token(p)
    IN  CASE peeked \in Ids       -> parse_id_expression(p)
          [] peeked = "Function"  -> parse_function(p)
          [] peeked = "Error"     -> parser_error(p, "LexerError")
          [] OTHER                -> Some(p, NoNode)

\* parse_id, then parse_id_expression: the access is recorded, then the call's arguments.
parse_id_expression(p) ==
    IF peek_next_token(p) \notin Ids
    THEN Some(p, NoNode)
    ELSE Propagate(
             parse_call_args(Recorded(frame_mut(consume_next_token(p),
                                                add_id_access(frame(p), peek_next_token(p))),
                                      "access")),
             LAMBDA args :
                 IF args.node = <<>>
                 THEN Some(args.p, Id(peek_next_token(p)))
                 ELSE Some(args.p, NamedCall(peek_next_token(p), args.node)))

\* parse_call_args: the result's node is the Vec of arguments.  Without a Comma the
\* loop ends after one argument.
parse_call_args(p) ==
    IF peek_next_token(p) = NoToken
    THEN Some(p, <<>>)
    ELSE Propagate(parse_expression_with_min_precedence(p, MIN_PRECEDENCE_AFTER_PIPE),
                   LAMBDA expression :
                       IF expression.node.node = "None"
                       THEN Some(expression.p, <<>>)
                       ELSE Some(expression.p, <<expression.node>>))

\* The end of parse_main_block: all tokens must be consumed.
parse_main_block_end(p, body) ==
    IF peek_token(p) # NoToken
    THEN parser_error(consume_token(p), "UnexpectedToken")
    ELSE Some([p EXCEPT !.frame_stack = Pop(p.frame_stack)],
              MainBlock(body, local_count(frame(p))))

\* The model's sources are one line: the loop of parse_main_block runs at most once.
parse_main_block(p) ==
    IF peek_next_token([p EXCEPT !.frame_stack = Append(@, FrameDefault)]) = NoToken
    THEN parse_main_block_end([p EXCEPT !.frame_stack = Append(@, FrameDefault)], <<>>)
    ELSE Propagate(
             parse_line([p EXCEPT !.frame_stack = Append(@, FrameDefault)]),
             LAMBDA expression :
                 IF expression.node.node = "None"
                 THEN parser_error(consume_token(expression.p), "ExpectedExpressionInMainBlock")
                 ELSE IF peek_next_token_on_same_line(expression.p) = NoToken
                      THEN parse_main_block_end(expression.p, <<expression.node>>)
                      ELSE parser_error(consume_next_token_on_same_line(expression.p),
                                        "UnexpectedToken"))

\* Parser::parse: Ok(ast) with the functions of the Ast and its entry point, or Err.
ParseResult(result) ==
    IF result.p.error # "none"
    THEN [ok |-> FALSE, error |-> result.p.error, functions |-> {}, entry_point |-> NoNode,
          consumed |-> result.p.consumed, frames |-> 0, recorded |-> {}]
    ELSE [ok |-> TRUE, error |-> "none", functions |-> result.p.functions,
          entry_point |-> result.node, consumed |-> result.p.consumed,
          frames |-> Len(result.p.frame_stack), recorded |-> result.p.recorded]

parse(tokens) == ParseResult(parse_main_block(ParserNew(tokens)))

\* ---- Loader::compile and the embedding that runs what was compiled ----
NoAst   == [ok |-> FALSE, error |-> "none", functions |-> {}, entry_point |-> NoNode, consumed |-> 0,
            frames |-> 0, recorded |-> {}]
NoChunk == [ok |-> FALSE, error |-> "none"]

\* Mutant of compile: the parser's error is ignored.
compile_ignoring_parser_error(parsed, compiler_ok) ==
    IF compiler_ok
    THEN [ok |-> TRUE, error |-> "none", entry_point |-> parsed.entry_point]
    ELSE [ok |-> FALSE, error |-> "CompilerError"]

\* Loader::compile on the result of Parser::parse; compiler_ok is whether
\* Compiler::compile returns Ok for the Ast.
compile(parsed, compiler_ok) ==
    IF parsed.ok
    THEN IF compiler_ok
         THEN [ok |-> TRUE, error |-> "none", entry_point |-> parsed.entry_point]
         ELSE [ok |-> FALSE, error |-> "CompilerError"]
    ELSE [ok |-> FALSE, error |-> "ParserError"]

\* compile_and_run: what koto.run() is given to run, and the String returned.
run_compiled(compiled) ==
    IF compiled.ok
    THEN [ran |-> <<compiled.entry_point>>, output |-> "output"]
    ELSE [ran |-> <<>>, output |-> "Compilation error"]

\* The state after a call: which function was called, and what it produced.
Called(name, parsed, compiled, ran) ==
    /\ call' = name
    /\ ast' = parsed
    /\ chunk' = compiled
    /\ run' = ran
    /\ UNCHANGED script

CallParse ==
    /\ call = "none"
    /\ Called("Parser::parse", parse(script), NoChunk, [ran |-> <<>>, output |-> "none"])

Compiled(name, parsed, compiled) ==
    Called(name, parsed, compiled,
           IF name = "compile_and_run" THEN run_compiled(compiled)
           ELSE [ran |-> <<>>, output |-> "none"])

Parsed(name, parsed) ==
    \E compiler_ok \in BOOLEAN : Compiled(name, parsed, compile(parsed, compiler_ok))

CallCompile ==
    /\ call = "none"
    /\ Parsed("Loader::compile", parse(script))

CallCompileAndRun ==
    /\ call = "none"
    /\ Parsed("compile_and_run", parse(script))

(***************************************************************************)
(* LOADER.  A path is the sequence of its components.  The file system of  *)
(* the model: the directory d (the working directory) with the module file *)
(* a.koto, the sub-directory s, the package directory m with main.koto,    *)
(* the symbolic link b.koto to a.koto, and beside d the symbolic link l to *)
(* d.  File contents are a version number and whether the script compiles. *)
(***************************************************************************)
Dirs  == {<<"d">>, <<"d", "s">>, <<"d", "m">>}
Files == {<<"d", "a.koto">>, <<"d", "m", "main.koto">>}
Links == {<<<<"l">>, <<"d">>>>, <<<<"d", "b.koto">>, <<"d", "a.koto">>>>}

NotFound == <<"?">>

\* One component of a path walked by the file system: ".." is the parent, a
\* symbolic link is followed, and only a directory can be walked through.
walk(at, component) ==
    IF at = NotFound
    THEN NotFound
    ELSE IF at # <<>> /\ at \notin Dirs
         THEN NotFound
         ELSE IF component = ".."
              THEN Pop(at)
              ELSE IF \E link \in Links : link[1] = Append(at, component)
                   THEN (CHOOSE link \in Links : link[1] = Append(at, component))[2]
                   ELSE IF Append(at, component) \in Dirs \cup Files
                        THEN Append(at, component)
                        ELSE NotFound

RECURSIVE walk_from(_, _, _)
walk_from(at, path, i) ==
    IF i > Len(path) THEN at ELSE walk_from(walk(at, path[i]), path, i + 1)

\* std::fs::canonicalize: the path with links and ".." resolved, NotFound for Err.
canonicalize(path) == walk_from(<<>>, path, 1)

\* Path::exists
exists(path) == canonicalize(path) # NotFound

\* Path::is_file
is_file(path) == canonicalize(path) \in Files

\* Path::with_extension("koto") on the last component: the extension is what
\* follows the last dot of the file name, and it is replaced when there is one.
with_extension(path) ==
    [path EXCEPT ![Len(path)] =
        CASE @ = "a"    -> "a.koto"
          [] @ = "a.x"  -> "a.koto"
          [] @ = "b"    -> "b.koto"
          [] @ = "m"    -> "m.koto"
          [] @ = "main" -> "main.koto"
          [] OTHER      -> "zz.koto"]

\* std::env::current_dir
current_dir == <<"d">>

ModuleNames == {<<"a">>, <<"b">>, <<"s", "..", "a">>, <<"m">>, <<"zz">>, <<"a.x">>}
NoPath      == <<>>
LoadFromPaths == {NoPath, <<"d">>, <<"l">>, <<"d", "a.koto">>, <<"nowhere">>}

\* The directory compile_module searches: that of the provided path, or the
\* working directory; NotFound for an io error.
search_directory(load_from_path) ==
    IF load_from_path = NoPath
    THEN current_dir
    ELSE IF canonicalize(load_from_path) = NotFound
         THEN NotFound
         ELSE IF is_file(load_from_path)
              THEN Pop(canonicalize(load_from_path))
              ELSE canonicalize(load_from_path)

\* The path at which compile_module finds the module, NotFound for none.
module_path(path, name) ==
    IF exists(with_extension(path \o name))
    THEN with_extension(path \o name)
    ELSE IF exists(with_extension(path \o name \o <<"main">>))
         THEN with_extension(path \o name \o <<"main">>)
         ELSE NotFound

\* Before any call of the Loader.
NoLoad ==
    [ call |-> "none",
      name |-> <<>>, load_from_path |-> NoPath, ok |-> FALSE, key |-> NotFound,
      read |-> FALSE, chunk |-> [id |-> 0, source |-> 0], file |-> NotFound, earlier |-> {} ]

Cached(key) == \E entry \in chunks : entry.key = key

\* load_module_from_path inserting whatever the compilation returned.
load_module_from_path_inserting(key) ==
    IF Cached(key)
    THEN [ok |-> TRUE, key |-> key, read |-> FALSE, insert |-> FALSE,
          chunk |-> (CHOOSE entry \in chunks : entry.key = key).chunk]
    ELSE [ok |-> files[canonicalize(key)].valid, key |-> key, read |-> TRUE, insert |-> TRUE,
          chunk |-> [id |-> Cardinality(chunks) + 1,
                     source |-> files[canonicalize(key)].version]]

\* The closure load_module_from_path: the cached chunk, or the file is read and
\* compiled and the chunk inserted.  A chunk is an Arc: its id tells it apart.
load_module_from_path(key) ==
    IF Cached(key)
    THEN [ok |-> TRUE, key |-> key, read |-> FALSE, insert |-> FALSE,
          chunk |-> (CHOOSE entry \in chunks : entry.key = key).chunk]
    ELSE IF files[canonicalize(key)].valid
         THEN [ok |-> TRUE, key |-> key, read |-> TRUE, insert |-> TRUE,
               chunk |-> [id |-> Cardinality(chunks) + 1,
                          source |-> files[canonicalize(key)].version]]
         ELSE [ok |-> FALSE, key |-> key, read |-> TRUE, insert |-> FALSE,
               chunk |-> [id |-> 0, source |-> 0]]

compile_module(name, load_from_path) ==
    IF search_directory(load_from_path) = NotFound
       \/ module_path(search_directory(load_from_path), name) = NotFound
    THEN [ok |-> FALSE, key |-> NotFound, read |-> FALSE, insert |-> FALSE,
          chunk |-> [id |-> 0, source |-> 0]]
    ELSE load_module_from_path(module_path(search_directory(load_from_path), name))

\* The state after compile_module returned result.  History: the call with the file
\* it located and the chunk an earlier call returned for that file; the first chunk
\* returned for each file.
Loaded(name, load_from_path, result) ==
    /\ chunks' = IF result.insert
                 THEN chunks \cup {[key |-> result.key, chunk |-> result.chunk]}
                 ELSE chunks
    /\ last_load' =
           [ call |-> "compile_module",
             name |-> name, load_from_path |-> load_from_path, ok |-> result.ok,
             key |-> result.key, read |-> result.read, chunk |-> result.chunk,
             file |-> canonicalize(result.key),
             earlier |-> {l.chunk : l \in {l \in loads : l.file = canonicalize(result.key)}} ]
    /\ loads' = IF result.ok /\ ~\E l \in loads : l.file = canonicalize(result.key)
                THEN loads \cup {[file |-> canonicalize(result.key), chunk |-> result.chunk]}
                ELSE loads
    /\ UNCHANGED files

CallCompileModule ==
    \E name \in ModuleNames, load_from_path \in LoadFromPaths :
        Loaded(name, load_from_path, compile_module(name, load_from_path))

\* Loader::compile for compile_script and compile_repl: the script is parsed and
\* compiled, and the chunk or the error returned; self.chunks is not touched.
LoaderCompiled(entry_point, valid) ==
    /\ chunks' = chunks
    /\ last_load' = [NoLoad EXCEPT !.call = entry_point, !.ok = valid]
    /\ UNCHANGED <<files, loads>>

CallCompileScript == \E valid \in BOOLEAN : LoaderCompiled("compile_script", valid)

CallCompileRepl == \E valid \in BOOLEAN : LoaderCompiled("compile_repl", valid)

\* The environment rewrites a module file: a new version that compiles or not.
WriteFile ==
    \E file \in Files, valid \in BOOLEAN :
        /\ files[file].version < MaxVersion
        /\ files' = [files EXCEPT ![file] = [version |-> @.version + 1, valid |-> valid]]
        /\ UNCHANGED <<chunks, last_load, loads>>

(***************************************************************************)
(* VALUE ITERATORS (src/src/runtime/src/value_iterator.rs)                 *)
(***************************************************************************)
Numbers == {1, 2}
MapKeys == {"k1", "k2"}

\* Option<ValueIteratorResult>
None == [type |-> "None"]
SomeValue(value) == [type |-> "Value", value |-> <<value>>]
SomeValuePair(key, value) == [type |-> "ValuePair", value |-> <<key, value>>]
SomeErr == [type |-> "Err", value |-> <<>>]

IntRange(start, end) == [kind |-> "Range", start |-> start, end |-> end]
IterableList == [kind |-> "List", start |-> 0, end |-> 0]
IterableMap == [kind |-> "Map", start |-> 0, end |-> 0]
IterableGenerator == [kind |-> "Generator", start |-> 0, end |-> 0]
IterableExternal == [kind |-> "External", start |-> 0, end |-> 0]

\* ValueIterator::new
ValueIteratorNew(iterable) == [index |-> 0, iterable |-> iterable]

\* Vm::continue_running on a generator's VM.  The VM is what the generator will
\* still yield: "Number", "RegisterList" or "Err" for each resumption; once the
\* generator has finished the VM returns Empty, and keeps doing so.
continue_running(generator_vm) ==
    IF generator_vm = <<>>
    THEN [vm |-> <<>>, result |-> "Empty"]
    ELSE [vm |-> Tail(generator_vm), result |-> Head(generator_vm)]

\* ExternalIterator::next: the host's closure is called.  The closure is modelled
\* by what it will still return ("Value" or "Err"); after that it returns None,
\* and keeps doing so.
ExternalIteratorNext(closure) ==
    IF closure = <<>>
    THEN [closure |-> <<>>, output |-> None]
    ELSE [closure |-> Tail(closure),
          output |-> IF Head(closure) = "Value" THEN SomeValue(1) ELSE SomeErr]

GeneratorOutput(result) ==
    CASE result = "Empty" -> None
      [] result = "RegisterList" -> SomeValue(<<1, 2>>)
      [] result = "Number" -> SomeValue(1)
      [] OTHER -> SomeErr

\* ValueIterator::next with a map branch that does not advance the index.
ValueIteratorNextStuck(it, data) ==
    CASE it.iterable.kind = "Range" ->
           IF it.iterable.start <= it.iterable.end
           THEN \* ascending range
                IF it.iterable.start + it.index < it.iterable.end
                THEN [index |-> it.index + 1, data |-> data,
                      output |-> SomeValue(it.iterable.start + it.index)]
                ELSE [index |-> it.index, data |-> data, output |-> None]
           ELSE \* descending range
                IF it.iterable.start - it.index - 1 >= it.iterable.end
                THEN [index |-> it.index + 1, data |-> data,
                      output |-> SomeValue(it.iterable.start - it.index - 1)]
                ELSE [index |-> it.index, data |-> data, output |-> None]
      [] it.iterable.kind = "List" ->
           [index |-> IF it.index + 1 \in DOMAIN data THEN it.index + 1 ELSE it.index,
            data |-> data,
            output |-> IF it.index + 1 \in DOMAIN data
                       THEN SomeValue(data[it.index + 1])
                       ELSE None]
      [] it.iterable.kind = "Map" ->
           [index |-> it.index, data |-> data,
            output |-> IF it.index + 1 \in DOMAIN data
                       THEN SomeValuePair(data[it.index + 1][1], data[it.index + 1][2])
                       ELSE None]
      [] it.iterable.kind = "Generator" ->
           [index |-> it.index, data |-> continue_running(data).vm,
            output |-> GeneratorOutput(continue_running(data).result)]
      [] OTHER ->
           [index |-> it.index, data |-> ExternalIteratorNext(data).closure,
            output |-> ExternalIteratorNext(data).output]

\* <ValueIterator as Iterator>::next.  it is the ValueIterator, data what its
\* iterable shares with the rest of the program (the list's or map's contents, the
\* generator's VM, the external closure).
ValueIteratorNext(it, data) ==
    CASE it.iterable.kind = "Range" ->
           IF it.iterable.start <= it.iterable.end
           THEN \* ascending range
                IF it.iterable.start + it.index < it.iterable.end
                THEN [index |-> it.index + 1, data |-> data,
                      output |-> SomeValue(it.iterable.start + it.index)]
                ELSE [index |-> it.index, data |-> data, output |-> None]
           ELSE \* descending range
                IF it.iterable.start - it.index - 1 >= it.iterable.end
                THEN [index |-> it.index + 1, data |-> data,
                      output |-> SomeValue(it.iterable.start - it.index - 1)]
                ELSE [index |-> it.index, data |-> data, output |-> None]
      [] it.iterable.kind = "List" ->
           [index |-> it.index + 1, data |-> data,
            output |-> IF it.index + 1 \in DOMAIN data
                       THEN SomeValue(data[it.index + 1])
                       ELSE None]
      [] it.iterable.kind = "Map" ->
           [index |-> it.index + 1, data |-> data,
            output |-> IF it.index + 1 \in DOMAIN data
                       THEN SomeValuePair(data[it.index + 1][1], data[it.index + 1][2])
                       ELSE None]
      [] it.iterable.kind = "Generator" ->
           [index |-> it.index, data |-> continue_running(data).vm,
            output |-> GeneratorOutput(continue_running(data).result)]
      [] OTHER ->
           [index |-> it.index, data |-> ExternalIteratorNext(data).closure,
            output |-> ExternalIteratorNext(data).output]

\* ---- the state machine: one iterator and what it shares ----
RangeLimits == -1 .. 2
Lists == UNION {[1 .. n -> Numbers] : n \in 0 .. MaxListLen}
Maps == {m \in UNION {[1 .. n -> MapKeys \X Numbers] : n \in 0 .. MaxListLen} :
           \A i, j \in DOMAIN m : i # j => m[i][1] # m[j][1]}
Generators == UNION {[1 .. n -> {"Number", "RegisterList", "Err"}] : n \in 0 .. 2}
Closures == UNION {[1 .. n -> {"Value", "Err"}] : n \in 0 .. 2}

\* with_range, with_list, with_map, with_vm, make_external
Iterators ==
    {<<ValueIteratorNew(IntRange(s, e)), <<>>>> : s, e \in RangeLimits}
    \cup {<<ValueIteratorNew(IterableList), l>> : l \in Lists}
    \cup {<<ValueIteratorNew(IterableMap), m>> : m \in Maps}
    \cup {<<ValueIteratorNew(IterableGenerator), g>> : g \in Generators}
    \cup {<<ValueIteratorNew(IterableExternal), c>> : c \in Closures}

NoNext == [exhausted |-> FALSE, after_exhaustion |-> FALSE, output |-> None]

\* next() is called on the iterator.  History: whether an earlier call reported
\* exhaustion, and what this call returned.
CallIterNext ==
    /\ iterator.index < MaxIndex
    /\ iterator' = [iterator EXCEPT !.index = ValueIteratorNext(iterator, shared).index]
    /\ shared' = ValueIteratorNext(iterator, shared).data
    /\ iter_log' = [exhausted |-> iter_log.exhausted
                                  \/ ValueIteratorNext(iterator, shared).output = None,
                    after_exhaustion |-> iter_log.exhausted,
                    output |-> ValueIteratorNext(iterator, shared).output]

\* The program appends to the list, or inserts a new key into the map, that the
\* iterator shares.
PushValue ==
    /\ iterator.iterable.kind \in {"List", "Map"}
    /\ Len(shared) < MaxListLen
    /\ \E v \in Numbers, k \in MapKeys :
          /\ iterator.iterable.kind = "Map" => \A i \in DOMAIN shared : shared[i][1] # k
          /\ shared' = IF iterator.iterable.kind = "List"
                       THEN Append(shared, v)
                       ELSE Append(shared, <<k, v>>)
    /\ UNCHANGED <<iterator, iter_log>>

\* The program removes the last element of the list or map.
PopValue ==
    /\ iterator.iterable.kind \in {"List", "Map"}
    /\ shared # <<>>
    /\ shared' = SubSeq(shared, 1, Len(shared) - 1)
    /\ UNCHANGED <<iterator, iter_log>>

(***************************************************************************)
(* TRY / CATCH / FINALLY: the AST of parse_try_expression, compiled and    *)
(* run as the bytecode and the VM are specified.                           *)
(***************************************************************************)
\* ---- AST nodes ----
AstNop == [node |-> "Nop"]
AstThrow(value) == [node |-> "Throw", value |-> value]
AstReturn == [node |-> "Return"]
AstBreak == [node |-> "Break"]
AstContinue == [node |-> "Continue"]
AstLoop(body) == [node |-> "Loop", body |-> body]
\* Node::Try(AstTry {try_block, catch_arg, catch_block, finally_block}); an empty
\* finally_block is None.  catch_arg is always register 1.
AstTry(try_block, catch_block, finally_block) ==
    [node |-> "Try", try_block |-> try_block, catch_arg |-> 1,
     catch_block |-> catch_block, finally_block |-> finally_block]

\* ---- bytecode ----
\* An instruction.  target is a jump's or TryStart's offset, value the thrown
\* constant or the catch-arg register.  path says where in the source the
\* instruction comes from: the try expressions around it, outermost first, each
\* named by the offset of its TryStart, with the part of it ("try", "catch",
\* "finally", "start" for the TryStart of a try expression that has a finally
\* block, "" for the other instructions between the blocks).
Op(op, target, value, path) ==
    [op |-> op, target |-> target, value |-> value, path |-> path, patch |-> FALSE]

\* break: a forward jump to the loop end, patched at the end of the loop.
BreakPlaceholder(path) ==
    [op |-> "Jump", target |-> 0, value |-> 0, path |-> path, patch |-> TRUE]

patch_breaks(code, end) ==
    [i \in DOMAIN code |->
        IF code[i].patch THEN [code[i] EXCEPT !.target = end, !.patch = FALSE] ELSE code[i]]

RECURSIVE compile_node(_, _, _, _)
RECURSIVE compile_block(_, _, _, _)

compile_block_rest(first, rest, base, path, loop) ==
    first \o compile_block(rest, base + Len(first), path, loop)

\* Compiles the block's expressions one after the other; base is the offset of the
\* first instruction, loop the offset of the enclosing loop's head.
compile_block(block, base, path, loop) ==
    IF block = <<>>
    THEN <<>>
    ELSE compile_block_rest(compile_node(Head(block), base, path, loop),
                            Tail(block), base, path, loop)

\* The loop's body, then the back-edge; the breaks of the body jump past it.
compile_loop_end(body, base, path) ==
    patch_breaks(body, base + Len(body) + 1) \o <<Op("JumpBack", base, 0, path)>>

compile_loop(node, base, path, loop) ==
    compile_loop_end(compile_block(node.body, base, path, base), base, path)

\* the catch body, then the finally block again
compile_try_catch_end(catch_body, finally_body) == catch_body \o finally_body

compile_try_finally_after_catch(node, try_start, base, path, loop, catch_body) ==
    compile_try_catch_end(
        catch_body,
        compile_block(node.finally_block, base + Len(catch_body),
                      path \o <<<<try_start, "finally">>>>, loop))

compile_try_catch(node, try_start, base, path, loop) ==
    compile_try_finally_after_catch(
        node, try_start, base, path, loop,
        compile_block(node.catch_block, base, path \o <<<<try_start, "catch">>>>, loop))

\* TryStart, the try body, TryEnd, the finally block, the jump over the catch body,
\* the catch body and the finally block again.
compile_try_assemble(node, base, path, try_body, finally_body, catch_part) ==
    <<Op("TryStart", base + Len(try_body) + Len(finally_body) + 3, node.catch_arg,
         path \o <<<<base, IF node.finally_block = <<>> THEN "" ELSE "start">>>>)>>
    \o try_body
    \o <<Op("TryEnd", 0, 0, path \o <<<<base, "">>>>)>>
    \o finally_body
    \o <<Op("Jump", base + Len(try_body) + Len(finally_body) + 3 + Len(catch_part), 0,
            path \o <<<<base, "">>>>)>>
    \o catch_part

compile_try_finally(node, base, path, loop, try_body, finally_body) ==
    compile_try_assemble(
        node, base, path, try_body, finally_body,
        compile_try_catch(node, base, base + Len(try_body) + Len(finally_body) + 3,
                          path, loop))

compile_try_body(node, base, path, loop, try_body) ==
    compile_try_finally(
        node, base, path, loop, try_body,
        compile_block(node.finally_block, base + Len(try_body) + 2,
                      path \o <<<<base, "finally">>>>, loop))

compile_try(node, base, path, loop) ==
    compile_try_body(
        node, base, path, loop,
        compile_block(node.try_block, base + 1, path \o <<<<base, "try">>>>, loop))

compile_node(node, base, path, loop) ==
    CASE node.node = "Nop" -> <<Op("Nop", 0, 0, path)>>
      [] node.node = "Throw" -> <<Op("Throw", 0, node.value, path)>>
      [] node.node = "Return" -> <<Op("Return", 0, 0, path)>>
      [] node.node = "Break" -> <<BreakPlaceholder(path)>>
      [] node.node = "Continue" -> <<Op("JumpBack", loop, 0, path)>>
      [] node.node = "Loop" -> compile_loop(node, base, path, loop)
      [] OTHER -> compile_try(node, base, path, loop)

\* The main block, and the return at its end.
compile_ast(main_block) ==
    compile_block(main_block, 1, <<>>, 0) \o <<Op("Return", 0, 0, <<>>)>>

\* ---- the VM: one frame ----
VmNew == [ip |-> 1, catch_stack |-> <<>>, registers |-> <<0>>, state |-> "running"]
VmIdle == [ip |-> 0, catch_stack |-> <<>>, registers |-> <<0>>, state |-> "idle"]

NoThrow == [thrown |-> 0, expected |-> 0, delivered |-> 0, bound |-> 0]
NoFinally == [pending |-> {}, skipped |-> {}]

Instruction == bytecode[vm.ip]

\* The try expressions around the instruction at offset ip.
TrysAround(ip) == {bytecode[ip].path[i][1] : i \in DOMAIN bytecode[ip].path}

\* The innermost try whose try body is around the instruction at offset ip, 0 if
\* the instruction is in no try body.
RECURSIVE InnermostTryBody(_)
InnermostTryBody(path) ==
    IF path = <<>> THEN 0
    ELSE IF path[Len(path)][2] = "try" THEN path[Len(path)][1]
    ELSE InnermostTryBody(SubSeq(path, 1, Len(path) - 1))

\* History of the finally blocks: pending holds the try expressions with a finally
\* block that were entered and whose finally block has not run since; skipped those
\* that control left in that condition.
FinallyStarted(log) ==
    [log EXCEPT !.pending =
        (log.pending
            \cup IF Instruction.op = "TryStart"
                    /\ Instruction.path[Len(Instruction.path)][2] = "start"
                 THEN {vm.ip} ELSE {})
        \ {Instruction.path[i][1] :
              i \in {j \in DOMAIN Instruction.path : Instruction.path[j][2] = "finally"}}]

FinallyLeft(log, next_vm) ==
    [pending |-> {t \in log.pending :
                     next_vm.state = "running" /\ t \in TrysAround(next_vm.ip)},
     skipped |-> log.skipped
                 \cup {t \in log.pending :
                          ~(next_vm.state = "running" /\ t \in TrysAround(next_vm.ip))}]

\* The VM has executed the instruction at vm.ip and is now next_vm.
Executed(next_vm) ==
    /\ vm' = next_vm
    /\ finally_log' = FinallyLeft(FinallyStarted(finally_log), next_vm)
    /\ UNCHANGED <<program, bytecode>>

Running(op) == vm.state = "running" /\ Instruction.op = op

\* any instruction other than the ones below
ExecNop ==
    /\ Running("Nop")
    /\ Executed([vm EXCEPT !.ip = @ + 1])
    /\ UNCHANGED throw_log

\* TryStart pushes a handler record: the catch-arg register and the catch body's
\* offset (and, as history, the try expression it belongs to).
ExecTryStart ==
    /\ Running("TryStart")
    /\ Len(vm.catch_stack) < MaxHandlers
    /\ Executed([vm EXCEPT !.ip = @ + 1,
                           !.catch_stack = Append(@, [register |-> Instruction.value,
                                                      ip |-> Instruction.target,
                                                      try |-> vm.ip])])
    /\ UNCHANGED throw_log

\* TryEnd pops the handler record.
ExecTryEnd ==
    /\ Running("TryEnd")
    /\ Executed([vm EXCEPT !.ip = @ + 1,
                           !.catch_stack = IF @ = <<>> THEN <<>>
                                           ELSE SubSeq(@, 1, Len(@) - 1)])
    /\ UNCHANGED throw_log

ExecJump ==
    /\ Running("Jump")
    /\ Executed([vm EXCEPT !.ip = Instruction.target])
    /\ UNCHANGED throw_log

ExecJumpBack ==
    /\ Running("JumpBack")
    /\ Executed([vm EXCEPT !.ip = Instruction.target])
    /\ UNCHANGED throw_log

\* Throw: with a handler record in the frame, unwind to the nearest one, bind the
\* thrown value into its catch-arg register and resume in its catch body; without
\* one the frame is popped, and the error is unhandled.
ExecThrow ==
    /\ Running("Throw")
    /\ IF vm.catch_stack # <<>>
       THEN /\ Executed([vm EXCEPT
                   !.ip = vm.catch_stack[Len(vm.catch_stack)].ip,
                   !.registers[vm.catch_stack[Len(vm.catch_stack)].register] =
                       Instruction.value,
                   !.catch_stack = SubSeq(@, 1, Len(@) - 1)])
            /\ throw_log' =
                   [thrown |-> Instruction.value,
                    expected |-> InnermostTryBody(Instruction.path),
                    delivered |-> vm.catch_stack[Len(vm.catch_stack)].try,
                    bound |-> Instruction.value]
       ELSE /\ Executed([vm EXCEPT !.state = "error"])
            /\ throw_log' =
                   [thrown |-> Instruction.value,
                    expected |-> InnermostTryBody(Instruction.path),
                    delivered |-> 0, bound |-> 0]

\* Return pops the frame.
ExecReturn ==
    /\ Running("Return")
    /\ Executed([vm EXCEPT !.state = "returned"])
    /\ UNCHANGED throw_log

\* ---- the programs of the model ----
Simple(in_loop) ==
    {AstNop, AstThrow(1), AstThrow(2), AstReturn}
        \cup IF in_loop THEN {AstBreak, AstContinue} ELSE {}
Blocks0(in_loop) == {<<s>> : s \in Simple(in_loop)}
Finallys == {<<>>, <<AstNop>>}
Trys0(in_loop) ==
    {AstTry(b, c, f) : b \in Blocks0(in_loop), c \in Blocks0(in_loop), f \in Finallys}
Blocks1(in_loop) ==
    Blocks0(in_loop)
        \cup {<<u, s>> : u \in Trys0(in_loop) \cup {AstLoop(<<t>>) : t \in Trys0(TRUE)},
                         s \in {AstNop, AstThrow(1)}}
Trys1(in_loop) ==
    {AstTry(b, c, f) : b \in Blocks1(in_loop), c \in Blocks0(in_loop), f \in Finallys}
Programs ==
    {<<t, s>> : t \in Trys1(FALSE) \cup {AstLoop(<<u>>) : u \in Trys1(TRUE)},
                s \in {AstNop, AstThrow(1)}}

\* ---- the state machine: an iterator over a generator ----
\* What the generator's body does each time it is resumed: it yields Empty, a
\* number or several values, or fails; at its end it returns.
GeneratorBodies ==
    UNION {[1 .. n -> {"Empty", "Number", "RegisterList", "Err"}] : n \in 0 .. MaxYields}

\* next() is called on the generator's iterator.  History as for CallIterNext, and
\* what the body did when it was resumed.
CallGeneratorNext ==
    /\ iterator' = [iterator EXCEPT !.index = ValueIteratorNext(iterator, shared).index]
    /\ shared' = ValueIteratorNext(iterator, shared).data
    /\ iter_log' = [exhausted |-> iter_log.exhausted
                                  \/ ValueIteratorNext(iterator, shared).output = None,
                    after_exhaustion |-> iter_log.exhausted,
                    output |-> ValueIteratorNext(iterator, shared).output,
                    body |-> IF shared = <<>> THEN "Return" ELSE Head(shared)]

\* ---- the state machine: iterating a list or a map to its end ----
NoIteration ==
    [contents |-> <<>>, collected |-> <<>>, last |-> None, done |-> FALSE,
     modified |-> FALSE, after_modification |-> FALSE]

\* The values an iteration over the contents should yield: a list's elements, a
\* map's key/value pairs.
OutputsOf(kind, contents) ==
    [i \in DOMAIN contents |->
        IF kind = "List" THEN SomeValue(contents[i])
        ELSE SomeValuePair(contents[i][1], contents[i][2])]

\* next() is called in the course of the iteration.  History: the outputs collected
\* so far, the last one, and whether the container was modified before it.
IterateNext ==
    /\ iterator.index < MaxIndex
    /\ iterator' = [iterator EXCEPT !.index = ValueIteratorNext(iterator, shared).index]
    /\ shared' = ValueIteratorNext(iterator, shared).data
    /\ iteration' =
           [iteration EXCEPT
               !.collected = IF ValueIteratorNext(iterator, shared).output = None
                             THEN @
                             ELSE Append(@, ValueIteratorNext(iterator, shared).output),
               !.last = ValueIteratorNext(iterator, shared).output,
               !.done = @ \/ ValueIteratorNext(iterator, shared).output = None,
               !.after_modification = iteration.modified]
    /\ UNCHANGED iter_log

\* The program appends to the container while the iteration is in progress.
PushDuringIteration ==
    /\ ~iteration.done
    /\ Len(shared) < MaxListLen
    /\ \E v \in Numbers, k \in MapKeys :
          /\ iterator.iterable.kind = "Map" => \A i \in DOMAIN shared : shared[i][1] # k
          /\ shared' = IF iterator.iterable.kind = "List"
                       THEN Append(shared, v)
                       ELSE Append(shared, <<k, v>>)
    /\ iteration' = [iteration EXCEPT !.modified = TRUE]
    /\ UNCHANGED <<iterator, iter_log>>

\* The program removes the container's last element while the iteration is in
\* progress.
PopDuringIteration ==
    /\ ~iteration.done
    /\ shared # <<>>
    /\ shared' = SubSeq(shared, 1, Len(shared) - 1)
    /\ iteration' = [iteration EXCEPT !.modified = TRUE]
    /\ UNCHANGED <<iterator, iter_log>>

\* ---- the state machine: an iterator and its copy ----
NoCopy == [index |-> 0, iterable |-> [kind |-> "NoCopy", start |-> 0, end |-> 0]]
NoAdvance == [advanced |-> "none", other_before |-> None, other_after |-> None]

\* #[derive(Clone)] on ValueIterator and Iterable: the index and the range are
\* copied; the list, the map, the generator's VM and the external closure are
\* behind an Arc, so the clone shares them with the original.
Clone(it) == [index |-> it.index, iterable |-> it.iterable]

CallCopy ==
    /\ iterator_copy = NoCopy
    /\ iterator_copy' = Clone(iterator)
    /\ UNCHANGED <<iterator, shared, iter_log, copy_log>>

\* History of an advance: what next() on the other iterator would have returned
\* just before it, and what it would return just after it.
Advanced(which, other, data_before, data_after) ==
    copy_log' = [advanced |-> which,
                 other_before |-> ValueIteratorNext(other, data_before).output,
                 other_after |-> ValueIteratorNext(other, data_after).output]

\* next() on the original, a copy having been made
AdvanceOriginal ==
    /\ iterator_copy # NoCopy
    /\ iterator.index < MaxIndex
    /\ iterator' = [iterator EXCEPT !.index = ValueIteratorNext(iterator, shared).index]
    /\ shared' = ValueIteratorNext(iterator, shared).data
    /\ Advanced("original", iterator_copy, shared, ValueIteratorNext(iterator, shared).data)
    /\ UNCHANGED <<iterator_copy, iter_log>>

\* next() on the original before the copy is made
AdvanceBeforeCopy ==
    /\ iterator_copy = NoCopy
    /\ iterator.index < MaxIndex
    /\ iterator' = [iterator EXCEPT !.index = ValueIteratorNext(iterator, shared).index]
    /\ shared' = ValueIteratorNext(iterator, shared).data
    /\ UNCHANGED <<iterator_copy, iter_log, copy_log>>

\* next() on the copy
AdvanceCopy ==
    /\ iterator_copy # NoCopy
    /\ iterator_copy.index < MaxIndex
    /\ iterator_copy' =
           [iterator_copy EXCEPT !.index = ValueIteratorNext(iterator_copy, shared).index]
    /\ shared' = ValueIteratorNext(iterator_copy, shared).data
    /\ Advanced("copy", iterator, shared, ValueIteratorNext(iterator_copy, shared).data)
    /\ UNCHANGED <<iterator, iter_log>>

\* ---- the state machine: a TokenLexer on a string with a template expression ----
\* The sources: a string that opens with ${ , then braces and identifiers.
TemplateSources ==
    {<<"'", "$", "{">> \o body :
        body \in UNION {[1 .. n -> {"{", "}", "a"}] : n \in 0 .. MaxTemplateLen}}

\* <TokenLexer as Iterator>::next: the next token is taken from the source.
TokenLexerNext ==
    /\ get_next_token(lexer, source).tok # NoToken
    /\ lexer' = get_next_token(lexer, source).lx
    /\ UNCHANGED <<source, peeked_tokens, current_peek_index, plain, returned, predicted>>

(***************************************************************************)
(* CHAINS OF BINARY OPERATORS.  The sources are one line: identifiers      *)
(* joined by up to MaxChain operators of the precedence table.             *)
(***************************************************************************)
BinaryOperators ==
    { "Pipe", "Or", "And", "Equal", "NotEqual", "Greater", "GreaterOrEqual", "Less",
      "LessOrEqual", "Add", "Subtract", "Multiply", "Divide", "Modulo" }

\* The source  x op[1] y op[2] x ...
Chain(ops) ==
    [i \in 1 .. 2 * Len(ops) + 1 |->
        IF i % 2 = 0 THEN ops[i \div 2] ELSE IF i % 4 = 1 THEN "x" ELSE "y"]

Chains == {Chain(ops) : ops \in UNION {[1..n -> BinaryOperators] : n \in 1..MaxChain}}

(***************************************************************************)
(* PARSER, SOURCES OF SEVERAL LINES.  The functions of the parser above    *)
(* read one line, where the ExpressionContext has no effect.  Here they    *)
(* are modelled with it (suffix _in: in a context), on sources given as    *)
(* lines: the indent of the line and its tokens, a single space between    *)
(* every two tokens of a line.  The frames are left out.  A result is the  *)
(* parser, the node and the caller's context as the call leaves it (the    *)
(* context is a &mut parameter of most parse functions).                   *)
(***************************************************************************)
Line(indent, tokens) == [indent |-> indent, tokens |-> tokens]

\* The significant tokens of the lines from the n-th on, each with the number and the
\* indent of its line, as KotoLexer reports them (peek_line_number, peek_indent).
RECURSIVE Lexed(_, _)
Lexed(lines, n) ==
    IF n > Len(lines)
    THEN <<>>
    ELSE [i \in 1 .. Len(lines[n].tokens) |->
             [token |-> lines[n].tokens[i], line |-> n - 1, indent |-> lines[n].indent]]
         \o Lexed(lines, n + 1)

\* ---- Indentation and ExpressionContext ----
Greater == [kind |-> "Greater", indent |-> 0]
GreaterOrEqual(indent) == [kind |-> "GreaterOrEqual", indent |-> indent]
Equal(indent) == [kind |-> "Equal", indent |-> indent]

greater_or_equal(indentation) ==
    IF indentation.kind = "Equal" THEN GreaterOrEqual(indentation.indent) ELSE indentation

permissive ==
    [allow_space_separated_call |-> TRUE, allow_linebreaks |-> TRUE, expected_indentation |-> Greater]

restricted ==
    [allow_space_separated_call |-> FALSE, allow_linebreaks |-> FALSE, expected_indentation |-> Greater]

inline ==
    [allow_space_separated_call |-> TRUE, allow_linebreaks |-> FALSE, expected_indentation |-> Greater]

start_new_expression(context) ==
    [allow_space_separated_call |-> TRUE, allow_linebreaks |-> context.allow_linebreaks,
     expected_indentation |-> Greater]

\* ---- the nodes of the sources of this section ----
Block(block) == [node |-> "Block", block |-> block]
If(condition, then_node, else_if_blocks, else_node) ==
    [ node |-> "If", condition |-> condition, then_node |-> then_node,
      else_if_blocks |-> else_if_blocks, else_node |-> else_node ]
Try(try_block, catch_arg, catch_block, finally_block) ==
    [ node |-> "Try", try_block |-> try_block, catch_arg |-> catch_arg,
      catch_block |-> catch_block, finally_block |-> finally_block ]

\* ---- the parser on lines ----
\* line, indent: the line number and the indent the lexer reports for the current token;
\* token_line: the line of the last token consumed that is no whitespace and no newline.
\* Kept beside the parser's state, from the spans of what it parsed: statement, the indent
\* of the line on which the statement being parsed (the call of parse_line) started;
\* continued, for every operator or call argument taken from a following line, that line's
\* indent and the statement's; attached, for every else if, else, catch and finally taken,
\* the indent of its line and of the line of its if or try.
LinesParserNew(lines) ==
    [ source |-> Lexed(lines, 1), consumed |-> 0, line |-> 0, indent |-> 0, token_line |-> 0,
      error |-> "none", statement |-> 0, continued |-> {}, attached |-> {} ]

SomeIn(p, node, context) == [p |-> p, node |-> node, context |-> context]

parser_error_in(p, error, context) ==
    [p |-> [p EXCEPT !.error = error], node |-> NoNode, context |-> context]

PeekInfo(token, line, indent) == [token |-> token, line |-> line, indent |-> indent]

\* Lexer::peek: between two tokens of a line is a Whitespace, after the last one a NewLine.
peek_token_in(p) ==
    IF p.consumed >= Len(p.source)
    THEN NoToken
    ELSE IF p.source[p.consumed + 1].line = p.line THEN "Whitespace" ELSE "NewLine"

\* Does the indent of a token on a following line match the context?
indentation_matches(p, expected_indentation, peeked_indent) ==
    CASE expected_indentation.kind = "GreaterOrEqual" -> peeked_indent >= expected_indentation.indent
      [] expected_indentation.kind = "Equal"          -> peeked_indent = expected_indentation.indent
      [] expected_indentation.kind = "Greater"        -> peeked_indent > p.indent

\* Some(PeekInfo), or None: a PeekInfo with NoToken.
peek_next_token_in(p, context) ==
    IF p.consumed >= Len(p.source)
    THEN PeekInfo(NoToken, p.line, p.indent)
    ELSE LET peeked == p.source[p.consumed + 1]
         IN  IF peeked.line = p.line
             THEN PeekInfo(peeked.token, p.line, p.indent)
             ELSE IF context.allow_linebreaks
                     /\ indentation_matches(p, context.expected_indentation, peeked.indent)
                  THEN PeekInfo(peeked.token, peeked.line, peeked.indent)
                  ELSE PeekInfo(NoToken, p.line, p.indent)

\* The context after consume_next_token or consume_until_next_token has reached a token.
context_after_linebreak(p, context, token) ==
    IF token.line > p.line /\ context.allow_linebreaks
       /\ context.expected_indentation.kind = "Greater"
    THEN [context EXCEPT !.expected_indentation = Equal(token.indent)]
    ELSE context

\* The whitespace and newlines before the next token are consumed, and the token.
consume_next_token_in(p, context) ==
    IF p.consumed >= Len(p.source)
    THEN SomeIn(p, NoNode, context)
    ELSE LET token == p.source[p.consumed + 1]
         IN  SomeIn([p EXCEPT !.consumed = @ + 1, !.line = token.line, !.indent = token.indent,
                              !.token_line = token.line],
                    NoNode, context_after_linebreak(p, context, token))

\* The whitespace and newlines before the next token are consumed: the current token
\* is the last of them, on the line of the next token.
consume_until_next_token_in(p, context) ==
    IF p.consumed >= Len(p.source)
    THEN SomeIn(p, NoNode, context)
    ELSE LET token == p.source[p.consumed + 1]
         IN  SomeIn([p EXCEPT !.line = token.line, !.indent = token.indent],
                    NoNode, context_after_linebreak(p, context, token))

\* The next token when it is on the current line, NewLine at the end of the line.
peek_next_token_on_same_line_in(p) ==
    IF p.consumed >= Len(p.source)
    THEN NoToken
    ELSE IF p.source[p.consumed + 1].line = p.line
         THEN p.source[p.consumed + 1].token
         ELSE "NewLine"

consume_next_token_on_same_line_in(p) ==
    IF p.consumed < Len(p.source) /\ p.source[p.consumed + 1].line = p.line
    THEN [p EXCEPT !.consumed = @ + 1, !.token_line = p.line]
    ELSE p

\* The result with the context the caller is left with.
WithContext(result, context) == [result EXCEPT !.context = context]
RECURSIVE parse_line_in(_, _)
RECURSIVE parse_expression_start_in(_, _, _, _)
RECURSIVE parse_expression_continued_in(_, _, _, _)
RECURSIVE parse_term_in(_, _)
RECURSIVE parse_indented_block_lines(_, _, _)

\* The model's sources have no Comma: the first expression is the only one.  The
\* expression's context is a copy: the caller's is left as it was.
parse_expressions_in(p, context) ==
    WithContext(parse_expression_start_in(p, <<>>, 0,
                    [context EXCEPT !.allow_space_separated_call = TRUE]),
                context)

\* parse_expression and parse_expression_with_min_precedence; no Range in the sources.
parse_expression_with_min_precedence_in(p, min_precedence, context) ==
    parse_expression_start_in(p, <<>>, min_precedence, context)

\* parse_term has the context as &mut; parse_expression_continued has it as &.
parse_expression_start_in(p, lhs, min_precedence, context) ==
    Propagate(parse_term_in(p, context),
              LAMBDA expression_start :
                  IF expression_start.node.node = "None"
                  THEN expression_start
                  ELSE WithContext(
                           parse_expression_continued_in(expression_start.p,
                               Append(lhs, expression_start.node), min_precedence,
                               expression_start.context),
                           expression_start.context))

\* The parser once an operator or a call argument is taken: when it was on a following
\* line, the indent of that line is recorded with the indent of the statement's line.
Continued(p, kind, from_line, peeked) ==
    IF peeked.line > from_line
    THEN [p EXCEPT !.continued =
             @ \cup {[kind |-> kind, statement |-> p.statement, indent |-> peeked.indent]}]
    ELSE p

\* parse_assign_expression: the target, then the right-hand side in a new context.
parse_assign_expression_in(p, lhs, context) ==
    IF \E i \in DOMAIN lhs : lhs[i].node # "Id"
    THEN parser_error_in(consume_next_token_in(p, context).p, "ExpectedAssignmentTarget", context)
    ELSE Propagate(parse_expressions_in(consume_next_token_in(p, context).p, permissive),
                   LAMBDA rhs :
                       IF rhs.node.node = "None"
                       THEN parser_error_in(rhs.p, "RhsExpression", context)
                       ELSE SomeIn(rhs.p, Assign(lhs[1], rhs.node), context))

\* parse_expression_continued from the operator on: op is the PeekInfo of the operator,
\* consumed the result of consume_next_token for it.
parse_rhs_expression_in(p, op, consumed, last_lhs, min_precedence) ==
    IF peek_next_token_in(consumed.p, consumed.context).token = NoToken
    THEN parser_error_in(consumed.p, "RhsExpression", consumed.context)
    ELSE Propagate(
             parse_expression_start_in(
                 consume_until_next_token_in(Continued(consumed.p, "operator", p.token_line, op),
                                             consumed.context).p,
                 <<>>, operator_precedence(op.token)[2],
                 consume_until_next_token_in(consumed.p, consumed.context).context),
             LAMBDA rhs :
                 IF rhs.node.node = "None"
                 THEN parser_error_in(rhs.p, "RhsExpression", rhs.context)
                 ELSE parse_expression_continued_in(rhs.p,
                          <<BinaryOp(op.token, last_lhs, rhs.node)>>, min_precedence,
                          rhs.context))

\* The context of the continuation is a copy in which Equal has become GreaterOrEqual.
parse_expression_continued_in(p, lhs, min_precedence, context_in) ==
    LET context == [context_in EXCEPT !.expected_indentation = greater_or_equal(@)]
        next    == peek_next_token_in(p, context)
    IN  IF lhs = <<>>
        THEN parser_error_in(p, "MissingContinuedExpressionLhs", context_in)
        ELSE IF next.token = "Assign"
             THEN parse_assign_expression_in(p, lhs, context)
             ELSE IF operator_precedence(next.token) # <<>>
                     /\ operator_precedence(next.token)[1] >= min_precedence
                  THEN parse_rhs_expression_in(p, next, consume_next_token_in(p, context),
                                               Last(lhs), min_precedence)
                  ELSE SomeIn(p, Last(lhs), context_in)

\* parse_call_args: the result's node is the Vec of arguments.  Without a Comma the
\* loop ends after one argument.  An argument on the current line follows a Whitespace.
parse_call_args_in(p, context) ==
    LET arg_context == [context EXCEPT !.expected_indentation = Greater]
        peeked      == peek_next_token_in(p, arg_context)
        new_line    == peeked.line > p.line
    IN  IF peeked.token = NoToken
           \/ (~new_line /\ ~(context.allow_space_separated_call /\ peek_token_in(p) = "Whitespace"))
        THEN SomeIn(p, <<>>, context)
        ELSE Propagate(
                 parse_expression_with_min_precedence_in(p, MIN_PRECEDENCE_AFTER_PIPE,
                     IF new_line
                     THEN [arg_context EXCEPT !.expected_indentation = Equal(peeked.indent)]
                     ELSE arg_context),
                 LAMBDA expression :
                     IF expression.node.node = "None"
                     THEN SomeIn(expression.p, <<>>, context)
                     ELSE SomeIn(Continued(expression.p, "call", p.token_line, peeked),
                                 <<expression.node>>, context))

\* parse_id, then parse_id_expression; the sources have no Colon and no lookup.
parse_id_expression_in(p, context) ==
    LET peeked   == peek_next_token_in(p, context)
        consumed == consume_next_token_in(p, context)
    IN  IF peeked.token \notin Ids
        THEN SomeIn(p, NoNode, context)
        ELSE Propagate(
                 parse_call_args_in(consumed.p, start_new_expression(consumed.context)),
                 LAMBDA args :
                     SomeIn(args.p,
                            IF args.node = <<>> THEN Id(peeked.token)
                            ELSE NamedCall(peeked.token, args.node),
                            consumed.context))

\* The end of parse_indented_block: a block of one expression is that expression.
indented_block_end(p, block) ==
    SomeIn(p, IF Len(block) = 1 THEN block[1] ELSE Block(block), permissive)

\* The loop of parse_indented_block, at the start of a line of the block.
parse_indented_block_lines(p, block_context, block) ==
    Propagate(
        parse_line_in(p, permissive),
        LAMBDA expression :
            IF expression.node.node = "None"
            THEN indented_block_end(expression.p, block)
            ELSE IF peek_next_token_on_same_line_in(expression.p) = NoToken
                 THEN indented_block_end(expression.p, Append(block, expression.node))
                 ELSE IF peek_next_token_on_same_line_in(expression.p) # "NewLine"
                      THEN parser_error_in(consume_next_token_on_same_line_in(expression.p),
                                           "UnexpectedToken", permissive)
                      ELSE IF peek_next_token_in(expression.p, block_context).token = NoToken
                           THEN indented_block_end(expression.p, Append(block, expression.node))
                           ELSE parse_indented_block_lines(
                                    consume_until_next_token_in(expression.p, block_context).p,
                                    consume_until_next_token_in(expression.p, block_context).context,
                                    Append(block, expression.node)))

\* Ok(None) unless the next token is on a following line with a greater indent.
parse_indented_block(p) ==
    LET peeked == peek_next_token_in(p, permissive)
    IN  IF peeked.token = NoToken \/ ~(peeked.indent > p.indent)
        THEN SomeIn(p, NoNode, permissive)
        ELSE parse_indented_block_lines(consume_until_next_token_in(p, permissive).p,
                                        consume_until_next_token_in(p, permissive).context, <<>>)
\* The parser once an else if, else, catch or finally is consumed: the indent of its
\* line is recorded with the indent of the line of its if or try.
Attached(p, keyword, owner_indent) ==
    [p EXCEPT !.attached =
        @ \cup {[keyword |-> keyword, indent |-> p.indent, owner_indent |-> owner_indent]}]

\* The inline form of parse_if_expression, from the Then on.
parse_if_inline(p, context, condition) ==
    Propagate(
        parse_expressions_in(consume_next_token_on_same_line_in(p), inline),
        LAMBDA then_node :
            IF then_node.node.node = "None"
            THEN parser_error_in(then_node.p, "ExpectedThenExpression", context)
            ELSE IF peek_next_token_on_same_line_in(then_node.p) # "Else"
                 THEN SomeIn(then_node.p, If(condition, then_node.node, <<>>, NoNode), context)
                 ELSE Propagate(
                          parse_expressions_in(consume_next_token_on_same_line_in(then_node.p),
                                               inline),
                          LAMBDA else_node :
                              IF else_node.node.node = "None"
                              THEN parser_error_in(else_node.p, "ExpectedElseExpression", context)
                              ELSE SomeIn(else_node.p,
                                          If(condition, then_node.node, <<>>, else_node.node),
                                          context)))

\* The else of the block form of parse_if_expression.
parse_else_block(p, context, expected_indentation, if_indent, condition, then_node, else_if_blocks) ==
    IF peek_next_token_in(p, context).token # "Else"
    THEN SomeIn(p, If(condition, then_node, else_if_blocks, NoNode), context)
    ELSE IF consume_next_token_in(p, context).p.indent # expected_indentation
         THEN parser_error_in(consume_next_token_in(p, context).p, "UnexpectedElseIndentation",
                              context)
         ELSE Propagate(
                  parse_indented_block(
                      Attached(consume_next_token_in(p, context).p, "Else", if_indent)),
                  LAMBDA else_block :
                      IF else_block.node.node = "None"
                      THEN parser_error_in(else_block.p, "ElseBlock", context)
                      ELSE SomeIn(else_block.p,
                                  If(condition, then_node, else_if_blocks, else_block.node),
                                  context))

\* The loop of the block form of parse_if_expression over the else if blocks.
RECURSIVE parse_else_if_blocks(_, _, _, _, _, _, _)
parse_else_if_block(p, context, expected_indentation, if_indent, condition, then_node, else_if_blocks) ==
    Propagate(
        parse_expression_with_min_precedence_in(p, 0, inline),
        LAMBDA else_if_condition :
            IF else_if_condition.node.node = "None"
            THEN parser_error_in(else_if_condition.p, "ExpectedElseIfCondition", context)
            ELSE Propagate(
                     parse_indented_block(else_if_condition.p),
                     LAMBDA else_if_block :
                         IF else_if_block.node.node = "None"
                         THEN parser_error_in(else_if_block.p, "ElseIfBlock", context)
                         ELSE parse_else_if_blocks(else_if_block.p, context,
                                  expected_indentation, if_indent, condition, then_node,
                                  Append(else_if_blocks,
                                         <<else_if_condition.node, else_if_block.node>>))))

parse_else_if_blocks(p, context, expected_indentation, if_indent, condition, then_node, else_if_blocks) ==
    IF peek_next_token_in(p, context).token # "ElseIf"
    THEN parse_else_block(p, context, expected_indentation, if_indent, condition, then_node,
                          else_if_blocks)
    ELSE IF consume_next_token_in(p, context).p.indent # expected_indentation
         THEN parser_error_in(consume_next_token_in(p, context).p, "UnexpectedElseIfIndentation",
                              context)
         ELSE parse_else_if_block(
                  Attached(consume_next_token_in(p, context).p, "ElseIf", if_indent),
                  context, expected_indentation, if_indent, condition, then_node, else_if_blocks)

\* The block form of parse_if_expression, from the end of the condition on.
parse_if_block(p, context, expected_indentation, if_indent, condition) ==
    IF ~context.allow_linebreaks
    THEN parser_error_in(p, "IfBlockNotAllowedInThisContext", context)
    ELSE Propagate(
             parse_indented_block(p),
             LAMBDA then_node :
                 IF then_node.node.node = "None"
                 THEN parser_error_in(then_node.p, "ThenKeywordOrBlock", context)
                 ELSE parse_else_if_blocks(then_node.p, context, expected_indentation,
                                           if_indent, condition, then_node.node, <<>>))

\* parse_if_expression once the If is consumed: if_indent is the indent of its line.
parse_if_condition(p, context, expected_indentation, if_indent) ==
    Propagate(
        parse_expression_with_min_precedence_in(p, 0, inline),
        LAMBDA condition :
            IF condition.node.node = "None"
            THEN parser_error_in(condition.p, "ExpectedIfCondition", context)
            ELSE IF peek_next_token_on_same_line_in(condition.p) = "Then"
                 THEN parse_if_inline(condition.p, context, condition.node)
                 ELSE parse_if_block(condition.p, context, expected_indentation, if_indent,
                                     condition.node))

\* The expected indentation is the current indent when the function is entered: the If
\* is still to be consumed.
parse_if_expression(p, context) ==
    parse_if_condition(
        consume_next_token_in(p, [context EXCEPT !.expected_indentation = Equal(p.indent)]).p,
        consume_next_token_in(p, [context EXCEPT !.expected_indentation = Equal(p.indent)]).context,
        p.indent,
        consume_next_token_in(p, context).p.indent)

\* parse_try_expression from the end of the catch block on.
parse_try_finally(p, context, try_indent, try_block, catch_arg, catch_block) ==
    IF peek_next_token_in(p, context).token # "Finally"
    THEN SomeIn(p, Try(try_block, catch_arg, catch_block, NoNode), context)
    ELSE Propagate(
             parse_indented_block(
                 Attached(consume_next_token_in(p, context).p, "Finally", try_indent)),
             LAMBDA finally_block :
                 IF finally_block.node.node = "None"
                 THEN parser_error_in(finally_block.p, "FinallyBody", context)
                 ELSE SomeIn(finally_block.p,
                             Try(try_block, catch_arg, catch_block, finally_block.node),
                             context))

\* parse_try_expression from the Catch on: its argument (parse_id_or_wildcard in a
\* restricted context), then its block.
parse_try_catch(p, context, try_indent, try_block) ==
    IF peek_next_token_in(p, context).token # "Catch"
    THEN parser_error_in(p, "ExpectedCatch", context)
    ELSE IF peek_next_token_in(consume_next_token_in(p, context).p, restricted).token \notin Ids
         THEN parser_error_in(consume_next_token_in(p, context).p, "ExpectedCatchArgument",
                              context)
         ELSE Propagate(
                  parse_indented_block(
                      consume_next_token_in(
                          Attached(consume_next_token_in(p, context).p, "Catch", try_indent),
                          restricted).p),
                  LAMBDA catch_block :
                      IF catch_block.node.node = "None"
                      THEN parser_error_in(catch_block.p, "CatchBody", context)
                      ELSE parse_try_finally(catch_block.p, context, try_indent, try_block,
                               peek_next_token_in(consume_next_token_in(p, context).p,
                                                  restricted).token,
                               catch_block.node))

\* parse_try_expression once the Try is consumed: the expected indentation is the
\* current indent, which is the indent of the line of the Try.
parse_try_body(p, context) ==
    Propagate(
        parse_indented_block(p),
        LAMBDA try_block :
            IF try_block.node.node = "None"
            THEN parser_error_in(try_block.p, "TryBody", context)
            ELSE parse_try_catch(try_block.p, context, p.indent, try_block.node))

parse_try_expression(p, context) ==
    parse_try_body(
        consume_next_token_in(p, context).p,
        [context EXCEPT !.expected_indentation =
            Equal(consume_next_token_in(p, context).p.indent)])

\* The terms of the model's sources; any other token starts no term.
parse_term_in(p, context) ==
    LET peeked == peek_next_token_in(p, context)
    IN  CASE peeked.token \in Ids  -> parse_id_expression_in(p, context)
          [] peeked.token = "If"   -> parse_if_expression(p, context)
          [] peeked.token = "Try"  -> parse_try_expression(p, context)
          [] OTHER                 -> SomeIn(p, NoNode, context)

\* The sources have no loop and no export: a line is parsed by parse_expressions.  The
\* statement is the one that starts at the current token's line.
parse_line_in(p, context) ==
    Propagate(parse_expressions_in([p EXCEPT !.statement = p.indent], context),
              LAMBDA result : SomeIn([result.p EXCEPT !.statement = p.statement],
                                     result.node, context))

\* The end of parse_main_block: all tokens must be consumed.
parse_main_block_end_in(p, body) ==
    IF p.consumed < Len(p.source)
    THEN parser_error_in(p, "UnexpectedToken", permissive)
    ELSE SomeIn(p, MainBlock(body, 0), permissive)

\* The loop of parse_main_block: the lines of the main block have the indent 0.
RECURSIVE parse_main_block_lines(_, _, _)
parse_main_block_lines(p, context, body) ==
    IF peek_next_token_in(p, context).token = NoToken
    THEN parse_main_block_end_in(p, body)
    ELSE Propagate(
             parse_line_in(consume_until_next_token_in(p, context).p, permissive),
             LAMBDA expression :
                 IF expression.node.node = "None"
                 THEN parser_error_in(expression.p, "ExpectedExpressionInMainBlock", context)
                 ELSE CASE peek_next_token_on_same_line_in(expression.p) = "NewLine" ->
                               parse_main_block_lines(expression.p, context,
                                                      Append(body, expression.node))
                        [] peek_next_token_on_same_line_in(expression.p) = NoToken ->
                               parse_main_block_end_in(expression.p,
                                                       Append(body, expression.node))
                        [] OTHER ->
                               parser_error_in(expression.p, "UnexpectedToken", context))

parse_main_block_in(p) ==
    parse_main_block_lines(p, [permissive EXCEPT !.expected_indentation = Equal(0)], <<>>)

\* Parser::parse on a source of several lines: Ok with the entry point, or Err; with
\* it, what the parser recorded about the lines it joined.
parse_lines(lines) ==
    LET result == parse_main_block_in(LinesParserNew(lines))
    IN  [ called |-> TRUE, ok |-> result.p.error = "none", error |-> result.p.error,
          entry_point |-> IF result.p.error = "none" THEN result.node ELSE NoNode,
          continued |-> result.p.continued, attached |-> result.p.attached ]

NoLayout ==
    [ called |-> FALSE, ok |-> FALSE, error |-> "none", entry_point |-> NoNode,
      continued |-> {}, attached |-> {} ]

\* ---- the sources ----
\* The lines of the given tokens with every choice of indents; the first line of a
\* source has the indent 0 (the lexer sets the indent after a newline only).
Layouts(shapes) ==
    { [i \in 1 .. Len(shapes) |-> Line(indents[i], shapes[i])] :
        indents \in {f \in [1 .. Len(shapes) -> 0 .. MaxIndent] : f[1] = 0} }

\* Short sources of any lines of a few shapes: operators and call arguments that
\* continue on a following line, after an identifier, an assignment or an if.
LineShapes ==
    { <<"x">>, <<"x", "Assign", "x">>, <<"If", "x", "Then", "x">>, <<"Add", "x">>, <<"x", "Add">> }

ContinuationSources ==
    UNION {Layouts(shapes) : shapes \in UNION {[1..n -> LineShapes] : n \in 1..MaxLines}}

\* An if in block form and a try, each at the start of a statement and as the
\* right-hand side of an assignment that continues on the following line.
IfSources ==
    Layouts(<< <<"If", "x">>, <<"x">>, <<"ElseIf", "x">>, <<"x">>, <<"Else">>, <<"x">> >>)
    \cup Layouts(<< <<"x", "Assign">>, <<"If", "x">>, <<"x">>, <<"Else">>, <<"x">> >>)

TrySources ==
    Layouts(<< <<"Try">>, <<"x">>, <<"Catch", "x">>, <<"x">>, <<"Finally">>, <<"x">> >>)
    \cup Layouts(<< <<"x", "Assign">>, <<"Try">>, <<"x">>, <<"Catch", "x">>, <<"x">>,
                    <<"Finally">>, <<"x">> >>)

Texts == ContinuationSources \cup IfSources \cup TrySources

\* Parser::parse is called on the source.
CallParseLines ==
    /\ ~layout.called
    /\ layout' = parse_lines(text)
    /\ UNCHANGED text

(***************************************************************************)
(* CLOSURES.  The compiler and the VM are not part of the sources at hand: *)
(* the function value and its call follow the specification (the Function  *)
(* and Capture instructions, the capture list resolved when the function   *)
(* value is constructed), the tests capture_via_mutation,                  *)
(* nested_captured_values and local_copy_of_captured_value, and the        *)
(* parser's frames above, which decide what a function captures.  The      *)
(* enclosing frame has the registers x (a number) and data (the list, or a *)
(* number once reassigned); the list has one element.  A function's body   *)
(* is a sequence of lines: x, data[0], x = v, x = x + 1, data[0] = v, and  *)
(* a nested function that reads x and is called at once.                   *)
(***************************************************************************)
Names == {"x", "data"}

Number(n)  == [type |-> "Number", n |-> n]
ListRef    == [type |-> "List", n |-> 0]
EmptyValue == [type |-> "Empty", n |-> 0]

BodyLine(kind, id, value) == [kind |-> kind, id |-> id, value |-> value]

BodyLines ==
    {BodyLine(kind, id, 0) : kind \in {"Id", "Increment", "Nested"}, id \in {"x"}}
    \cup {BodyLine("Index", "data", 0)}
    \cup {BodyLine("Assign", id, value) : id \in Names, value \in 0 .. MaxNumber}
    \cup {BodyLine("SetIndex", "data", value) : value \in 0 .. MaxNumber}

Bodies == UNION {[1..n -> BodyLines] : n \in 1..MaxBody}

\* The frame of the function after the parser has finished a line of its body.
\* An assignment parses its target as an expression (an access), then records the
\* assignment and removes the access; a nested function hands its non-locals on.
frame_after_line(function_frame, line) ==
    finish_expression(
        CASE line.kind \in {"Id", "Index", "SetIndex"} ->
                 add_id_access(function_frame, line.id)
          [] line.kind = "Assign" ->
                 remove_id_access(
                     add_id_assignment(add_id_access(function_frame, line.id), line.id), line.id)
          [] line.kind = "Increment" ->
                 add_id_access(
                     remove_id_access(
                         add_id_assignment(add_id_access(function_frame, line.id), line.id),
                         line.id),
                     line.id)
          [] line.kind = "Nested" ->
                 add_nested_accessed_non_locals(function_frame,
                     finish_expression(add_id_access(FrameDefault, line.id))))

RECURSIVE frame_after_body(_, _, _)
frame_after_body(function_frame, body, i) ==
    IF i > Len(body)
    THEN function_frame
    ELSE frame_after_body(frame_after_line(function_frame, body[i]), body, i + 1)

\* The Function node's accessed_non_locals: what the function captures.
accessed_non_locals(body) == frame_after_body(FrameDefault, body, 1).accessed_non_locals

\* Capture: the value of the source register is bound into the function value.
Capture(function, target, source_register) ==
    [function EXCEPT !.captures[target] = source_register]

\* Function, then one Capture per accessed non-local, sourced from the registers of
\* the enclosing frame.
RECURSIVE capture_all(_, _, _)
capture_all(function, registers_of_frame, ids) ==
    IF ids = {}
    THEN function
    ELSE LET id == CHOOSE id \in ids : TRUE
         IN  capture_all(Capture(function, id, registers_of_frame[id]), registers_of_frame,
                         ids \ {id})

make_function(body, registers_of_frame) ==
    capture_all([body |-> body, captures |-> [id \in Names |-> EmptyValue]],
                registers_of_frame, accessed_non_locals(body) \cap Names)

NoFunction == [body |-> <<>>, captures |-> [id \in Names |-> EmptyValue]]

\* Mutant of call_frame: the called function reads the registers of the enclosing
\* frame as they are at the call.
call_frame_of_caller(function, registers_of_caller) ==
    [id \in Names |->
        IF id \in accessed_non_locals(function.body) THEN registers_of_caller[id] ELSE EmptyValue]

\* The registers of the frame of a call: the captured values; the other locals are
\* not yet assigned.
call_frame(function, registers_of_caller) ==
    [id \in Names |->
        IF id \in accessed_non_locals(function.body) THEN function.captures[id] ELSE EmptyValue]

\* A line of the body is executed in the frame of the call: the frame, the list and
\* the result of the line.
run_line(line, frame_registers, elements) ==
    CASE line.kind = "Id" ->
             [frame |-> frame_registers, list |-> elements, result |-> frame_registers[line.id]]
      [] line.kind = "Index" ->
             [frame |-> frame_registers, list |-> elements,
              result |-> IF frame_registers[line.id] = ListRef THEN Number(elements[1])
                         ELSE EmptyValue]
      [] line.kind = "Assign" ->
             [frame |-> [frame_registers EXCEPT ![line.id] = Number(line.value)],
              list |-> elements, result |-> Number(line.value)]
      [] line.kind = "Increment" ->
             IF frame_registers[line.id].type = "Number"
             THEN [frame |-> [frame_registers EXCEPT ![line.id] = Number(@.n + 1)],
                   list |-> elements, result |-> Number(frame_registers[line.id].n + 1)]
             ELSE [frame |-> frame_registers, list |-> elements, result |-> EmptyValue]
      [] line.kind = "SetIndex" ->
             IF frame_registers[line.id] = ListRef
             THEN [frame |-> frame_registers, list |-> <<line.value>>,
                   result |-> Number(line.value)]
             ELSE [frame |-> frame_registers, list |-> elements, result |-> EmptyValue]
      [] line.kind = "Nested" ->
             [frame |-> frame_registers, list |-> elements,
              result |-> call_frame(make_function(<<BodyLine("Id", line.id, 0)>>, frame_registers),
                                    frame_registers)[line.id]]

\* The body from its i-th line on: the list at the end and the result of every line.
RECURSIVE run_body(_, _, _, _, _)
run_body_from(body, i, ran, results) ==
    run_body(body, i + 1, ran.frame, ran.list, Append(results, ran.result))

run_body(body, i, frame_registers, elements, results) ==
    IF i > Len(body)
    THEN [list |-> elements, results |-> results]
    ELSE run_body_from(body, i, run_line(body[i], frame_registers, elements), results)

NoCall == [count |-> 0, results |-> <<>>, created |-> [id \in Names |-> EmptyValue]]

\* name = value in the enclosing frame.
AssignOuter ==
    \E id \in Names, value \in 0 .. MaxNumber :
        /\ outer' = [outer EXCEPT ![id] = Number(value)]
        /\ UNCHANGED <<heap, callee, call_log>>

\* data[0] = value in the enclosing frame.
SetIndexOuter ==
    \E value \in 0 .. MaxNumber :
        /\ outer["data"] = ListRef
        /\ heap' = <<value>>
        /\ UNCHANGED <<outer, callee, call_log>>

\* f = || body in the enclosing frame; created notes the registers at that moment.
MakeFunction ==
    \E body \in Bodies :
        /\ callee = NoFunction
        /\ callee' = make_function(body, outer)
        /\ call_log' = [call_log EXCEPT !.created = outer]
        /\ UNCHANGED <<outer, heap>>

\* f() in the enclosing frame.
CallFunction ==
    /\ callee # NoFunction
    /\ call_log.count < MaxCalls
    /\ heap' = run_body(callee.body, 1, call_frame(callee, outer), heap, <<>>).list
    /\ call_log' =
           [call_log EXCEPT
               !.count = @ + 1,
               !.results = run_body(callee.body, 1, call_frame(callee, outer),
                                    heap, <<>>).results]
    /\ UNCHANGED <<outer, callee>>

(***************************************************************************)
(* WORDS AND COMMENTS.  Sources for the TokenLexer made of words: up to    *)
(* MaxPieces pieces, each an identifier, a keyword, a dot, a space or the  *)
(* letter f to lengthen a word; and sources that open a multi-line comment *)
(* followed by up to MaxComment characters.                                *)
(***************************************************************************)
WordPieces ==
    { <<"x">>, <<".">>, <<" ">>, <<"f">>, <<"o", "r">>, <<"i", "f">>,
      <<"e", "l", "s", "e">>, <<"e", "l", "s", "e", " ", "i", "f">> }

RECURSIVE Joined(_)
Joined(pieces) == IF pieces = <<>> THEN <<>> ELSE Head(pieces) \o Joined(Tail(pieces))

WordSources ==
    {Joined(pieces) : pieces \in UNION {[1 .. n -> WordPieces] : n \in 0 .. MaxPieces}}

CommentSources ==
    {<<"#", "-">> \o body :
        body \in UNION {[1 .. n -> {"#", "-", "a"}] : n \in 0 .. MaxComment}}

(***************************************************************************)
(* THREADS ON ONE GENERATOR.  Iterable::Generator holds an Arc<Mutex<Vm>>, *)
(* so every clone of the iterator shares the VM and its mutex.  Each       *)
(* thread of the model owns a clone and calls next() on it; next() is the  *)
(* steps lock, continue_running (the VM executes up to the next yield or   *)
(* to the end of the body), and the drop of the guard on return.  The body *)
(* of the generator yields the numbers 1, 2, ... in turn.  The VM of the   *)
(* model does not panic, so the mutex is never poisoned.                   *)
(***************************************************************************)
Threads  == {"t1", "t2"}
NoThread == "none"

\* The body of a generator that yields n values.
ThreadedBody(n) == [i \in 1 .. n |-> Number(i)]

\* Mutex::new on the generator's VM; yielded is the history of what the VM yielded.
MutexNew(body) ==
    [holder |-> NoThread, vm |-> body, executing |-> {}, yielded |-> <<>>]

\* A thread that is not in a call of next().
Idle == [pc |-> "idle", calls |-> 0, output |-> None]

\* Mutant of lock_acquired: lock() returns while another guard is alive.
lock_acquired_at_once(mutex) == TRUE

\* Mutex::lock returns its guard only when no other guard of the mutex is alive.
lock_acquired(mutex) == mutex.holder = NoThread

\* A thread calls next() on its clone of the iterator.
ThreadCallsNext ==
    \E t \in Threads :
        /\ callers[t].pc = "idle"
        /\ callers[t].calls < MaxThreadCalls
        /\ callers' = [callers EXCEPT ![t].pc = "lock", ![t].calls = @ + 1]
        /\ UNCHANGED <<vm_mutex, deliveries>>

\* vm.lock(): the thread waits until it is given the guard.
ThreadLocks ==
    \E t \in Threads :
        /\ callers[t].pc = "lock"
        /\ lock_acquired(vm_mutex)
        /\ vm_mutex' = [vm_mutex EXCEPT !.holder = t]
        /\ callers' = [callers EXCEPT ![t].pc = "continue_running"]
        /\ UNCHANGED deliveries

\* vm_guard.continue_running(): the thread starts executing the VM's instructions.
ThreadResumes ==
    \E t \in Threads :
        /\ callers[t].pc = "continue_running"
        /\ vm_mutex' = [vm_mutex EXCEPT !.executing = @ \cup {t}]
        /\ callers' = [callers EXCEPT ![t].pc = "executing"]
        /\ UNCHANGED deliveries

\* continue_running returns: the body has yielded a value, or has come to its end
\* (Value::Empty, for which next() returns None).
ThreadYields ==
    \E t \in Threads :
        /\ callers[t].pc = "executing"
        /\ vm_mutex' =
               [vm_mutex EXCEPT
                   !.executing = @ \ {t},
                   !.vm = IF @ = <<>> THEN <<>> ELSE Tail(@),
                   !.yielded = IF vm_mutex.vm = <<>> THEN @ ELSE Append(@, Head(vm_mutex.vm))]
        /\ callers' =
               [callers EXCEPT
                   ![t].pc = "return",
                   ![t].output = IF vm_mutex.vm = <<>> THEN None
                                 ELSE SomeValue(Head(vm_mutex.vm))]
        /\ UNCHANGED deliveries

\* next() returns: the guard is dropped at the end of the match, and the caller has
\* the output.
ThreadReturns ==
    \E t \in Threads :
        /\ callers[t].pc = "return"
        /\ vm_mutex' = [vm_mutex EXCEPT !.holder = IF @ = t THEN NoThread ELSE @]
        /\ callers' = [callers EXCEPT ![t].pc = "idle"]
        /\ deliveries' = Append(deliveries, [thread |-> t, output |-> callers[t].output])

(***************************************************************************)
(* SPECIFICATIONS                                                          *)
(***************************************************************************)
\* A KotoLexer just constructed on any source of the model; the rest is idle.
LexInit ==
    /\ source \in LexSources
    /\ lexer = KotoLexerNew.lexer
    /\ peeked_tokens = KotoLexerNew.peeked_tokens
    /\ current_peek_index = KotoLexerNew.current_peek_index
    /\ plain = TokenLexerNew
    /\ returned = NothingReturned
    /\ predicted = <<>>
    /\ script = <<>> /\ call = "none" /\ ast = NoAst /\ chunk = NoChunk
    /\ run = [ran |-> <<>>, output |-> "none"]
    /\ chunks = {} /\ files = <<>> /\ last_load = NoLoad /\ loads = {}
    /\ iterator = ValueIteratorNew(IterableList) /\ shared = <<>> /\ iter_log = NoNext
    /\ program = <<>> /\ bytecode = <<>> /\ vm = VmIdle
    /\ throw_log = NoThrow /\ finally_log = NoFinally
    /\ iteration = NoIteration
    /\ iterator_copy = NoCopy /\ copy_log = NoAdvance
    /\ text = <<>> /\ layout = NoLayout
    /\ outer = [id \in Names |-> EmptyValue] /\ heap = <<0>> /\ callee = NoFunction /\ call_log = NoCall
    /\ vm_mutex = MutexNew(<<>>) /\ callers = [t \in Threads |-> Idle] /\ deliveries = <<>>

LexNext ==
    \/ CallPeek /\ UNCHANGED <<parservars, loadervars, itervars, vmvars, collectvars, copyvars, layoutvars, closurevars, threadvars>>
    \/ CallPeekN /\ UNCHANGED <<parservars, loadervars, itervars, vmvars, collectvars, copyvars, layoutvars, closurevars, threadvars>>
    \/ CallNext /\ UNCHANGED <<parservars, loadervars, itervars, vmvars, collectvars, copyvars, layoutvars, closurevars, threadvars>>

SpecLexer == LexInit /\ [][LexNext]_vars

\* A TokenLexer just constructed on a string that opens a template expression; the
\* rest is idle.
TemplateInit ==
    /\ source \in TemplateSources
    /\ lexer = TokenLexerNew
    /\ peeked_tokens = <<>> /\ current_peek_index = 0
    /\ plain = TokenLexerNew /\ returned = NothingReturned /\ predicted = <<>>
    /\ script = <<>> /\ call = "none" /\ ast = NoAst /\ chunk = NoChunk
    /\ run = [ran |-> <<>>, output |-> "none"]
    /\ chunks = {} /\ files = <<>> /\ last_load = NoLoad /\ loads = {}
    /\ iterator = ValueIteratorNew(IterableList) /\ shared = <<>> /\ iter_log = NoNext
    /\ program = <<>> /\ bytecode = <<>> /\ vm = VmIdle
    /\ throw_log = NoThrow /\ finally_log = NoFinally
    /\ iteration = NoIteration
    /\ iterator_copy = NoCopy /\ copy_log = NoAdvance
    /\ text = <<>> /\ layout = NoLayout
    /\ outer = [id \in Names |-> EmptyValue] /\ heap = <<0>> /\ callee = NoFunction /\ call_log = NoCall
    /\ vm_mutex = MutexNew(<<>>) /\ callers = [t \in Threads |-> Idle] /\ deliveries = <<>>

TemplateNext ==
    \/ TokenLexerNext /\ UNCHANGED <<parservars, loadervars, itervars, vmvars, collectvars, copyvars, layoutvars, closurevars, threadvars>>

SpecTemplate == TemplateInit /\ [][TemplateNext]_vars

\* A TokenLexer just constructed on a source of words or on a comment; the rest
\* is idle.
TokensInit ==
    /\ source \in WordSources \cup CommentSources
    /\ lexer = TokenLexerNew
    /\ peeked_tokens = <<>> /\ current_peek_index = 0
    /\ plain = TokenLexerNew /\ returned = NothingReturned /\ predicted = <<>>
    /\ script = <<>> /\ call = "none" /\ ast = NoAst /\ chunk = NoChunk
    /\ run = [ran |-> <<>>, output |-> "none"]
    /\ chunks = {} /\ files = <<>> /\ last_load = NoLoad /\ loads = {}
    /\ iterator = ValueIteratorNew(IterableList) /\ shared = <<>> /\ iter_log = NoNext
    /\ program = <<>> /\ bytecode = <<>> /\ vm = VmIdle
    /\ throw_log = NoThrow /\ finally_log = NoFinally
    /\ iteration = NoIteration
    /\ iterator_copy = NoCopy /\ copy_log = NoAdvance
    /\ text = <<>> /\ layout = NoLayout
    /\ outer = [id \in Names |-> EmptyValue] /\ heap = <<0>> /\ callee = NoFunction /\ call_log = NoCall
    /\ vm_mutex = MutexNew(<<>>) /\ callers = [t \in Threads |-> Idle] /\ deliveries = <<>>

TokensNext ==
    \/ TokenLexerNext /\ UNCHANGED <<parservars, loadervars, itervars, vmvars, collectvars, copyvars, layoutvars, closurevars, threadvars>>

SpecTokens == TokensInit /\ [][TokensNext]_vars

\* A generator of the model and a clone of its iterator in each thread, no call
\* made yet; the rest is idle.
ThreadsInit ==
    /\ source = <<>>
    /\ lexer = TokenLexerNew
    /\ peeked_tokens = <<>> /\ current_peek_index = 0
    /\ plain = TokenLexerNew /\ returned = NothingReturned /\ predicted = <<>>
    /\ script = <<>> /\ call = "none" /\ ast = NoAst /\ chunk = NoChunk
    /\ run = [ran |-> <<>>, output |-> "none"]
    /\ chunks = {} /\ files = <<>> /\ last_load = NoLoad /\ loads = {}
    /\ iterator = ValueIteratorNew(IterableList) /\ shared = <<>> /\ iter_log = NoNext
    /\ program = <<>> /\ bytecode = <<>> /\ vm = VmIdle
    /\ throw_log = NoThrow /\ finally_log = NoFinally
    /\ iteration = NoIteration
    /\ iterator_copy = NoCopy /\ copy_log = NoAdvance
    /\ text = <<>> /\ layout = NoLayout
    /\ outer = [id \in Names |-> EmptyValue] /\ heap = <<0>> /\ callee = NoFunction /\ call_log = NoCall
    /\ vm_mutex \in {MutexNew(ThreadedBody(n)) : n \in 0 .. MaxYields} /\ callers = [t \in Threads |-> Idle] /\ deliveries = <<>>

ThreadsNext ==
    \/ ThreadCallsNext /\ UNCHANGED <<lexvars, parservars, loadervars, itervars, vmvars, collectvars, copyvars, layoutvars, closurevars>>
    \/ ThreadLocks /\ UNCHANGED <<lexvars, parservars, loadervars, itervars, vmvars, collectvars, copyvars, layoutvars, closurevars>>
    \/ ThreadResumes /\ UNCHANGED <<lexvars, parservars, loadervars, itervars, vmvars, collectvars, copyvars, layoutvars, closurevars>>
    \/ ThreadYields /\ UNCHANGED <<lexvars, parservars, loadervars, itervars, vmvars, collectvars, copyvars, layoutvars, closurevars>>
    \/ ThreadReturns /\ UNCHANGED <<lexvars, parservars, loadervars, itervars, vmvars, collectvars, copyvars, layoutvars, closurevars>>

SpecThreads == ThreadsInit /\ [][ThreadsNext]_vars

\* Any source of the model, not yet given to a call; the rest is idle.
ParserInit ==
    /\ script \in Scripts
    /\ call = "none" /\ ast = NoAst /\ chunk = NoChunk
    /\ run = [ran |-> <<>>, output |-> "none"]
    /\ source = <<>>
    /\ lexer = TokenLexerNew /\ peeked_tokens = <<>> /\ current_peek_index = 0
    /\ plain = TokenLexerNew /\ returned = NothingReturned /\ predicted = <<>>
    /\ chunks = {} /\ files = <<>> /\ last_load = NoLoad /\ loads = {}
    /\ iterator = ValueIteratorNew(IterableList) /\ shared = <<>> /\ iter_log = NoNext
    /\ program = <<>> /\ bytecode = <<>> /\ vm = VmIdle
    /\ throw_log = NoThrow /\ finally_log = NoFinally
    /\ iteration = NoIteration
    /\ iterator_copy = NoCopy /\ copy_log = NoAdvance
    /\ text = <<>> /\ layout = NoLayout
    /\ outer = [id \in Names |-> EmptyValue] /\ heap = <<0>> /\ callee = NoFunction /\ call_log = NoCall
    /\ vm_mutex = MutexNew(<<>>) /\ callers = [t \in Threads |-> Idle] /\ deliveries = <<>>

ParserNext ==
    \/ CallParse /\ UNCHANGED <<lexvars, loadervars, itervars, vmvars, collectvars, copyvars, layoutvars, closurevars, threadvars>>
    \/ CallCompile /\ UNCHANGED <<lexvars, loadervars, itervars, vmvars, collectvars, copyvars, layoutvars, closurevars, threadvars>>
    \/ CallCompileAndRun /\ UNCHANGED <<lexvars, loadervars, itervars, vmvars, collectvars, copyvars, layoutvars, closurevars, threadvars>>

SpecParser == ParserInit /\ [][ParserNext]_vars

\* A chain of binary operators, not yet parsed; the rest is idle.
PrecedenceInit ==
    /\ script \in Chains
    /\ call = "none" /\ ast = NoAst /\ chunk = NoChunk
    /\ run = [ran |-> <<>>, output |-> "none"]
    /\ source = <<>>
    /\ lexer = TokenLexerNew /\ peeked_tokens = <<>> /\ current_peek_index = 0
    /\ plain = TokenLexerNew /\ returned = NothingReturned /\ predicted = <<>>
    /\ chunks = {} /\ files = <<>> /\ last_load = NoLoad /\ loads = {}
    /\ iterator = ValueIteratorNew(IterableList) /\ shared = <<>> /\ iter_log = NoNext
    /\ program = <<>> /\ bytecode = <<>> /\ vm = VmIdle
    /\ throw_log = NoThrow /\ finally_log = NoFinally
    /\ iteration = NoIteration
    /\ iterator_copy = NoCopy /\ copy_log = NoAdvance
    /\ text = <<>> /\ layout = NoLayout
    /\ outer = [id \in Names |-> EmptyValue] /\ heap = <<0>> /\ callee = NoFunction /\ call_log = NoCall
    /\ vm_mutex = MutexNew(<<>>) /\ callers = [t \in Threads |-> Idle] /\ deliveries = <<>>

PrecedenceNext ==
    \/ CallParse /\ UNCHANGED <<lexvars, loadervars, itervars, vmvars, collectvars, copyvars, layoutvars, closurevars, threadvars>>

SpecPrecedence == PrecedenceInit /\ [][PrecedenceNext]_vars

\* A source of several lines, not yet parsed; the rest is idle.
LayoutInit ==
    /\ script = <<>>
    /\ call = "none" /\ ast = NoAst /\ chunk = NoChunk
    /\ run = [ran |-> <<>>, output |-> "none"]
    /\ source = <<>>
    /\ lexer = TokenLexerNew /\ peeked_tokens = <<>> /\ current_peek_index = 0
    /\ plain = TokenLexerNew /\ returned = NothingReturned /\ predicted = <<>>
    /\ chunks = {} /\ files = <<>> /\ last_load = NoLoad /\ loads = {}
    /\ iterator = ValueIteratorNew(IterableList) /\ shared = <<>> /\ iter_log = NoNext
    /\ program = <<>> /\ bytecode = <<>> /\ vm = VmIdle
    /\ throw_log = NoThrow /\ finally_log = NoFinally
    /\ iteration = NoIteration
    /\ iterator_copy = NoCopy /\ copy_log = NoAdvance
    /\ text \in Texts /\ layout = NoLayout
    /\ outer = [id \in Names |-> EmptyValue] /\ heap = <<0>> /\ callee = NoFunction /\ call_log = NoCall
    /\ vm_mutex = MutexNew(<<>>) /\ callers = [t \in Threads |-> Idle] /\ deliveries = <<>>

LayoutNext ==
    \/ CallParseLines /\ UNCHANGED <<lexvars, parservars, loadervars, itervars, vmvars, collectvars, copyvars, closurevars, threadvars>>

SpecLayout == LayoutInit /\ [][LayoutNext]_vars

\* The enclosing frame with x a number and data the list; no closure yet.
ClosureInit ==
    /\ script = <<>>
    /\ call = "none" /\ ast = NoAst /\ chunk = NoChunk
    /\ run = [ran |-> <<>>, output |-> "none"]
    /\ source = <<>>
    /\ lexer = TokenLexerNew /\ peeked_tokens = <<>> /\ current_peek_index = 0
    /\ plain = TokenLexerNew /\ returned = NothingReturned /\ predicted = <<>>
    /\ chunks = {} /\ files = <<>> /\ last_load = NoLoad /\ loads = {}
    /\ iterator = ValueIteratorNew(IterableList) /\ shared = <<>> /\ iter_log = NoNext
    /\ program = <<>> /\ bytecode = <<>> /\ vm = VmIdle
    /\ throw_log = NoThrow /\ finally_log = NoFinally
    /\ iteration = NoIteration
    /\ iterator_copy = NoCopy /\ copy_log = NoAdvance
    /\ text = <<>> /\ layout = NoLayout
    /\ \E x \in 0 .. MaxNumber : outer = [id \in Names |-> IF id = "x" THEN Number(x) ELSE ListRef]
    /\ heap \in {<<element>> : element \in 0 .. MaxNumber}
    /\ callee = NoFunction /\ call_log = NoCall
    /\ vm_mutex = MutexNew(<<>>) /\ callers = [t \in Threads |-> Idle] /\ deliveries = <<>>

ClosureNext ==
    \/ AssignOuter /\ UNCHANGED <<lexvars, parservars, loadervars, itervars, vmvars, collectvars, copyvars, layoutvars, threadvars>>
    \/ SetIndexOuter /\ UNCHANGED <<lexvars, parservars, loadervars, itervars, vmvars, collectvars, copyvars, layoutvars, threadvars>>
    \/ MakeFunction /\ UNCHANGED <<lexvars, parservars, loadervars, itervars, vmvars, collectvars, copyvars, layoutvars, threadvars>>
    \/ CallFunction /\ UNCHANGED <<lexvars, parservars, loadervars, itervars, vmvars, collectvars, copyvars, layoutvars, threadvars>>

SpecClosure == ClosureInit /\ [][ClosureNext]_vars

\* A Loader just constructed (Default: an empty cache); the rest is idle.
LoaderInit ==
    /\ chunks = {}
    /\ files = [file \in Files |-> [version |-> 1, valid |-> TRUE]]
    /\ last_load = NoLoad
    /\ loads = {}
    /\ source = <<>>
    /\ lexer = TokenLexerNew /\ peeked_tokens = <<>> /\ current_peek_index = 0
    /\ plain = TokenLexerNew /\ returned = NothingReturned /\ predicted = <<>>
    /\ script = <<>> /\ call = "none" /\ ast = NoAst /\ chunk = NoChunk
    /\ run = [ran |-> <<>>, output |-> "none"]
    /\ iterator = ValueIteratorNew(IterableList) /\ shared = <<>> /\ iter_log = NoNext
    /\ program = <<>> /\ bytecode = <<>> /\ vm = VmIdle
    /\ throw_log = NoThrow /\ finally_log = NoFinally
    /\ iteration = NoIteration
    /\ iterator_copy = NoCopy /\ copy_log = NoAdvance
    /\ text = <<>> /\ layout = NoLayout
    /\ outer = [id \in Names |-> EmptyValue] /\ heap = <<0>> /\ callee = NoFunction /\ call_log = NoCall
    /\ vm_mutex = MutexNew(<<>>) /\ callers = [t \in Threads |-> Idle] /\ deliveries = <<>>

LoaderNext ==
    \/ CallCompileModule /\ UNCHANGED <<lexvars, parservars, itervars, vmvars, collectvars, copyvars, layoutvars, closurevars, threadvars>>
    \/ WriteFile /\ UNCHANGED <<lexvars, parservars, itervars, vmvars, collectvars, copyvars, layoutvars, closurevars, threadvars>>
    \/ CallCompileScript /\ UNCHANGED <<lexvars, parservars, itervars, vmvars, collectvars, copyvars, layoutvars, closurevars, threadvars>>
    \/ CallCompileRepl /\ UNCHANGED <<lexvars, parservars, itervars, vmvars, collectvars, copyvars, layoutvars, closurevars, threadvars>>

SpecLoader == LoaderInit /\ [][LoaderNext]_vars

\* Any iterator of the model just constructed (index 0); the rest is idle.
IterInit ==
    /\ \E i \in Iterators : iterator = i[1] /\ shared = i[2]
    /\ iter_log = NoNext
    /\ source = <<>>
    /\ lexer = TokenLexerNew /\ peeked_tokens = <<>> /\ current_peek_index = 0
    /\ plain = TokenLexerNew /\ returned = NothingReturned /\ predicted = <<>>
    /\ script = <<>> /\ call = "none" /\ ast = NoAst /\ chunk = NoChunk
    /\ run = [ran |-> <<>>, output |-> "none"]
    /\ chunks = {} /\ files = <<>> /\ last_load = NoLoad /\ loads = {}
    /\ program = <<>> /\ bytecode = <<>> /\ vm = VmIdle
    /\ throw_log = NoThrow /\ finally_log = NoFinally
    /\ iteration = NoIteration
    /\ iterator_copy = NoCopy /\ copy_log = NoAdvance
    /\ text = <<>> /\ layout = NoLayout
    /\ outer = [id \in Names |-> EmptyValue] /\ heap = <<0>> /\ callee = NoFunction /\ call_log = NoCall
    /\ vm_mutex = MutexNew(<<>>) /\ callers = [t \in Threads |-> Idle] /\ deliveries = <<>>

IterNext ==
    \/ CallIterNext /\ UNCHANGED <<lexvars, parservars, loadervars, vmvars, collectvars, copyvars, layoutvars, closurevars, threadvars>>
    \/ PushValue /\ UNCHANGED <<lexvars, parservars, loadervars, vmvars, collectvars, copyvars, layoutvars, closurevars, threadvars>>
    \/ PopValue /\ UNCHANGED <<lexvars, parservars, loadervars, vmvars, collectvars, copyvars, layoutvars, closurevars, threadvars>>

SpecIter == IterInit /\ [][IterNext]_vars

\* An iterator just made for any generator of the model (with_vm); the rest is idle.
GeneratorInit ==
    /\ iterator = ValueIteratorNew(IterableGenerator)
    /\ shared \in GeneratorBodies
    /\ iter_log = NoNext
    /\ source = <<>>
    /\ lexer = TokenLexerNew /\ peeked_tokens = <<>> /\ current_peek_index = 0
    /\ plain = TokenLexerNew /\ returned = NothingReturned /\ predicted = <<>>
    /\ script = <<>> /\ call = "none" /\ ast = NoAst /\ chunk = NoChunk
    /\ run = [ran |-> <<>>, output |-> "none"]
    /\ chunks = {} /\ files = <<>> /\ last_load = NoLoad /\ loads = {}
    /\ program = <<>> /\ bytecode = <<>> /\ vm = VmIdle
    /\ throw_log = NoThrow /\ finally_log = NoFinally
    /\ iteration = NoIteration
    /\ iterator_copy = NoCopy /\ copy_log = NoAdvance
    /\ text = <<>> /\ layout = NoLayout
    /\ outer = [id \in Names |-> EmptyValue] /\ heap = <<0>> /\ callee = NoFunction /\ call_log = NoCall
    /\ vm_mutex = MutexNew(<<>>) /\ callers = [t \in Threads |-> Idle] /\ deliveries = <<>>

GeneratorNext ==
    \/ CallGeneratorNext /\ UNCHANGED <<lexvars, parservars, loadervars, vmvars, collectvars, copyvars, layoutvars, closurevars, threadvars>>

SpecGenerator == GeneratorInit /\ [][GeneratorNext]_vars

\* An iterator just made for any list or map of the model; the rest is idle.
IterationInit ==
    /\ \E i \in {j \in Iterators : j[1].iterable.kind \in {"List", "Map"}} :
          /\ iterator = i[1]
          /\ shared = i[2]
          /\ iteration = [NoIteration EXCEPT !.contents = i[2]]
    /\ iter_log = NoNext
    /\ source = <<>>
    /\ lexer = TokenLexerNew /\ peeked_tokens = <<>> /\ current_peek_index = 0
    /\ plain = TokenLexerNew /\ returned = NothingReturned /\ predicted = <<>>
    /\ script = <<>> /\ call = "none" /\ ast = NoAst /\ chunk = NoChunk
    /\ run = [ran |-> <<>>, output |-> "none"]
    /\ chunks = {} /\ files = <<>> /\ last_load = NoLoad /\ loads = {}
    /\ program = <<>> /\ bytecode = <<>> /\ vm = VmIdle
    /\ throw_log = NoThrow /\ finally_log = NoFinally
    /\ iterator_copy = NoCopy /\ copy_log = NoAdvance
    /\ text = <<>> /\ layout = NoLayout
    /\ outer = [id \in Names |-> EmptyValue] /\ heap = <<0>> /\ callee = NoFunction /\ call_log = NoCall
    /\ vm_mutex = MutexNew(<<>>) /\ callers = [t \in Threads |-> Idle] /\ deliveries = <<>>

IterationNext ==
    \/ IterateNext /\ UNCHANGED <<lexvars, parservars, loadervars, vmvars, copyvars, layoutvars, closurevars, threadvars>>
    \/ PushDuringIteration /\ UNCHANGED <<lexvars, parservars, loadervars, vmvars, copyvars, layoutvars, closurevars, threadvars>>
    \/ PopDuringIteration /\ UNCHANGED <<lexvars, parservars, loadervars, vmvars, copyvars, layoutvars, closurevars, threadvars>>

SpecIteration == IterationInit /\ [][IterationNext]_vars

\* Any iterator of the model just constructed, not yet copied; the rest is idle.
CopyInit ==
    /\ \E i \in Iterators : iterator = i[1] /\ shared = i[2]
    /\ iter_log = NoNext
    /\ iterator_copy = NoCopy /\ copy_log = NoAdvance
    /\ source = <<>>
    /\ lexer = TokenLexerNew /\ peeked_tokens = <<>> /\ current_peek_index = 0
    /\ plain = TokenLexerNew /\ returned = NothingReturned /\ predicted = <<>>
    /\ script = <<>> /\ call = "none" /\ ast = NoAst /\ chunk = NoChunk
    /\ run = [ran |-> <<>>, output |-> "none"]
    /\ chunks = {} /\ files = <<>> /\ last_load = NoLoad /\ loads = {}
    /\ program = <<>> /\ bytecode = <<>> /\ vm = VmIdle
    /\ throw_log = NoThrow /\ finally_log = NoFinally
    /\ iteration = NoIteration
    /\ text = <<>> /\ layout = NoLayout
    /\ outer = [id \in Names |-> EmptyValue] /\ heap = <<0>> /\ callee = NoFunction /\ call_log = NoCall
    /\ vm_mutex = MutexNew(<<>>) /\ callers = [t \in Threads |-> Idle] /\ deliveries = <<>>

CopyNext ==
    \/ AdvanceBeforeCopy /\ UNCHANGED <<lexvars, parservars, loadervars, vmvars, collectvars, layoutvars, closurevars, threadvars>>
    \/ CallCopy /\ UNCHANGED <<lexvars, parservars, loadervars, vmvars, collectvars, layoutvars, closurevars, threadvars>>
    \/ AdvanceOriginal /\ UNCHANGED <<lexvars, parservars, loadervars, vmvars, collectvars, layoutvars, closurevars, threadvars>>
    \/ AdvanceCopy /\ UNCHANGED <<lexvars, parservars, loadervars, vmvars, collectvars, layoutvars, closurevars, threadvars>>

SpecCopy == CopyInit /\ [][CopyNext]_vars

\* Any program of the model, compiled, in a VM about to run it; the rest is idle.
VmInit ==
    /\ program \in Programs
    /\ bytecode = compile_ast(program)
    /\ vm = VmNew
    /\ throw_log = NoThrow /\ finally_log = NoFinally
    /\ source = <<>>
    /\ lexer = TokenLexerNew /\ peeked_tokens = <<>> /\ current_peek_index = 0
    /\ plain = TokenLexerNew /\ returned = NothingReturned /\ predicted = <<>>
    /\ script = <<>> /\ call = "none" /\ ast = NoAst /\ chunk = NoChunk
    /\ run = [ran |-> <<>>, output |-> "none"]
    /\ chunks = {} /\ files = <<>> /\ last_load = NoLoad /\ loads = {}
    /\ iterator = ValueIteratorNew(IterableList) /\ shared = <<>> /\ iter_log = NoNext
    /\ iteration = NoIteration
    /\ iterator_copy = NoCopy /\ copy_log = NoAdvance
    /\ text = <<>> /\ layout = NoLayout
    /\ outer = [id \in Names |-> EmptyValue] /\ heap = <<0>> /\ callee = NoFunction /\ call_log = NoCall
    /\ vm_mutex = MutexNew(<<>>) /\ callers = [t \in Threads |-> Idle] /\ deliveries = <<>>

VmNext ==
    \/ ExecNop /\ UNCHANGED <<lexvars, parservars, loadervars, itervars, collectvars, copyvars, layoutvars, closurevars, threadvars>>
    \/ ExecTryStart /\ UNCHANGED <<lexvars, parservars, loadervars, itervars, collectvars, copyvars, layoutvars, closurevars, threadvars>>
    \/ ExecTryEnd /\ UNCHANGED <<lexvars, parservars, loadervars, itervars, collectvars, copyvars, layoutvars, closurevars, threadvars>>
    \/ ExecJump /\ UNCHANGED <<lexvars, parservars, loadervars, itervars, collectvars, copyvars, layoutvars, closurevars, threadvars>>
    \/ ExecJumpBack /\ UNCHANGED <<lexvars, parservars, loadervars, itervars, collectvars, copyvars, layoutvars, closurevars, threadvars>>
    \/ ExecThrow /\ UNCHANGED <<lexvars, parservars, loadervars, itervars, collectvars, copyvars, layoutvars, closurevars, threadvars>>
    \/ ExecReturn /\ UNCHANGED <<lexvars, parservars, loadervars, itervars, collectvars, copyvars, layoutvars, closurevars, threadvars>>

SpecVm == VmInit /\ [][VmNext]_vars

(***************************************************************************)
(* CLAIMS: the lexer's lookahead                                           *)
(***************************************************************************)

\* C1: under any interleaving of peek(), peek_n(k) and next(), what peek_n(k)
\* returned is the token the (k+1)-th following next() returns, and next()
\* returns the tokens a lexer that is never peeked returns, in the same order.
C1_PeekAgreesWithNext ==
    returned.count > 0 =>
        /\ returned.announced.token \in {"?", returned.token}
        /\ returned.token = returned.plain

\* C1 witness: a token announced by peek_n(k), k >= 1, has since been returned by next().
C1_Witness ==
    /\ returned.count > 0
    /\ returned.announced.far
    /\ returned.token \notin {NoToken, "Whitespace"}

\* C2: after next() has returned a token T, span(), slice(), current_indent() and
\* source_position() are those of a never-peeked lexer that has just produced T:
\* T's span, T's text, the indent of T's line, the offset just past T.
C2_CurrentTokenProperties ==
    (returned.count > 0 /\ returned.token # NoToken) =>
        /\ span(Koto) = plain.span
        /\ slice(Koto, source) = TokenLexerSlice(plain, source)
        /\ current_indent(Koto) = plain.indent
        /\ source_position(Koto) = plain.current_byte

\* C2 witness: T had been peeked before it was consumed, tokens after T are still
\* in the peek buffer, and T is on an indented second line.
C2_Witness ==
    /\ returned.count > 0
    /\ returned.token \notin {NoToken, "Whitespace"}
    /\ returned.announced.token # "?"
    /\ peeked_tokens # <<>>
    /\ current_peek_index > 0
    /\ plain.indent > 0
    /\ plain.span.end.line > 1

(***************************************************************************)
(* CLAIMS: the parser's captures                                           *)
(***************************************************************************)
ArgsOf(f) == {f.args[i] : i \in DOMAIN f.args}

\* The identifiers an expression reads while they are not assigned locally, in
\* evaluation order: an operator's left side before its right side, a call's
\* arguments before the function called, an assignment's right side before its
\* target is assigned.  A nested function reads, where it is created, what its body
\* reads before assigning it, except a name that is being assigned the function.
RECURSIVE ReadsBeforeAssigned(_, _, _)
ReadsBeforeAssigned(n, assigned, assigning) ==
    CASE n.node = "Id" ->
            [reads |-> {n.id} \ assigned, assigned |-> assigned]
      [] n.node = "NamedCall" ->
            LET a == ReadsBeforeAssigned(n.args[1], assigned, assigning)
            IN  [reads |-> a.reads \cup ({n.id} \ a.assigned), assigned |-> a.assigned]
      [] n.node = "BinaryOp" ->
            LET l == ReadsBeforeAssigned(n.lhs, assigned, assigning)
                r == ReadsBeforeAssigned(n.rhs, l.assigned, assigning)
            IN  [reads |-> l.reads \cup r.reads, assigned |-> r.assigned]
      [] n.node = "Assign" ->
            LET e == ReadsBeforeAssigned(n.expression, assigned, assigning \cup {n.target.id})
            IN  [reads |-> e.reads, assigned |-> e.assigned \cup {n.target.id}]
      [] n.node = "Function" ->
            [reads |-> ReadsBeforeAssigned(n.body, ArgsOf(n), {}).reads \ (assigned \cup assigning),
             assigned |-> assigned]
      [] OTHER -> [reads |-> {}, assigned |-> assigned]

\* The names a function assigns locally: its arguments and the targets of the
\* assignments of its body (those of a nested function are that function's).
RECURSIVE AssignedIn(_)
AssignedIn(n) ==
    CASE n.node = "NamedCall" -> AssignedIn(n.args[1])
      [] n.node = "BinaryOp" -> AssignedIn(n.lhs) \cup AssignedIn(n.rhs)
      [] n.node = "Assign" -> {n.target.id} \cup AssignedIn(n.expression)
      [] OTHER -> {}

\* C3: every identifier a produced function reads (directly or in a nested function)
\* before it is assigned locally is in the function's accessed_non_locals.
C3_ReadsAreCaptured ==
    \A f \in ast.functions :
        ReadsBeforeAssigned(f.body, ArgsOf(f), {}).reads \subseteq f.accessed_non_locals

C7_FailedCompileRunsNothing ==
    call # "none" =>
        /\ (\E i \in 1..Len(script) : i <= ast.consumed + 1 /\ script[i] = "Error") => ~ast.ok
        /\ ~ast.ok => ~chunk.ok
        /\ (call # "Parser::parse" /\ ~chunk.ok) => chunk.error \in {"ParserError", "CompilerError"}
        /\ ~chunk.ok => run.ran = <<>>

\* C7 witness: compile_and_run on a source whose Error token comes after a function
\* has been parsed: the compile failed and nothing was run.
C7_Witness ==
    /\ call = "compile_and_run"
    /\ \E i \in 3..Len(script) : script[i] = "Error" /\ i <= ast.consumed + 1
    /\ ~chunk.ok /\ chunk.error = "ParserError"
    /\ run = [ran |-> <<>>, output |-> "Compilation error"]

(***************************************************************************)
(* CLAIMS: the loader's cache                                              *)
(***************************************************************************)
\* C5: once compile_module has succeeded for a module file, a later successful call
\* that locates the same file returns the chunk returned before and does not read
\* the file.
C5_CacheHitReturnsSameChunk ==
    (last_load.ok /\ last_load.earlier # {}) =>
        /\ last_load.earlier = {last_load.chunk}
        /\ ~last_load.read

\* C6: every cache key is the canonical path of the file it was located at, so no
\* two entries of the cache are for one file.
C6_KeyIsCanonicalPath ==
    /\ \A entry \in chunks : entry.key = canonicalize(entry.key)
    /\ \A e1, e2 \in chunks : canonicalize(e1.key) = canonicalize(e2.key) => e1 = e2

(***************************************************************************)
(* CLAIMS: iterators                                                       *)
(***************************************************************************)

\* C8: once next() has reported exhaustion (None), every later next() on that
\* iterator reports exhaustion too, whatever kind of iterator it is and whatever
\* happened to the list or map since.
C8_ExhaustionIsPermanent ==
    iter_log.after_exhaustion => iter_log.output = None

(***************************************************************************)
(* CLAIMS: try / catch / finally                                           *)
(***************************************************************************)

\* C9: a value thrown while try bodies are executing is delivered to the catch
\* block of the innermost try whose body is executing, never to a try whose body
\* has finished, and the catch argument is bound to the thrown value.
C9_ThrowReachesInnermostCatch ==
    throw_log.expected # 0 =>
        /\ throw_log.delivered = throw_log.expected
        /\ throw_log.bound = throw_log.thrown

\* C10: a try expression with a finally block, once entered, is never left
\* without its finally block having run.
C10_FinallyRunsOnEveryExit ==
    finally_log.skipped = {}

(***************************************************************************)
(* CLAIMS: what iteration yields                                           *)
(***************************************************************************)

\* C16: iterating the exclusive range start..end yields start first and then moves
\* one step at a time toward end, stopping before it (5..0 yields 5,4,3,2,1); the
\* iterator reports exhaustion exactly after those values.
C16_RangeYieldsFromStartTowardEnd ==
    iterator.iterable.kind = "Range" =>
        /\ iter_log.output.type = "Value" =>
              /\ iter_log.output.value[1] =
                    IF iterator.iterable.start <= iterator.iterable.end
                    THEN iterator.iterable.start + (iterator.index - 1)
                    ELSE iterator.iterable.start - (iterator.index - 1)
              /\ iter_log.output.value[1] # iterator.iterable.end
        /\ iter_log.exhausted =>
              iterator.index =
                    IF iterator.iterable.start <= iterator.iterable.end
                    THEN iterator.iterable.end - iterator.iterable.start
                    ELSE iterator.iterable.start - iterator.iterable.end

\* C11: each next() on a generator's iterator returns the value the body yielded
\* when it was resumed, whatever that value is, and reports exhaustion exactly when
\* the body returned or ran to its end.
C11_GeneratorYieldsWhatBodyYields ==
    "body" \in DOMAIN iter_log =>
        /\ iter_log.output = None <=> iter_log.body = "Return"
        /\ iter_log.body = "Empty" => iter_log.output.type = "Value"
        /\ iter_log.body = "Number" => iter_log.output = SomeValue(1)
        /\ iter_log.body = "RegisterList" => iter_log.output = SomeValue(<<1, 2>>)

\* C17: as long as the list or map is not modified during the iteration, the
\* values next() has returned are the container's elements (key/value pairs), each
\* once and in order, and next() reports exhaustion exactly after the last one.
C17_UnmodifiedContainerIsReproduced ==
    (iteration # NoIteration /\ ~iteration.modified) =>
        /\ iteration.collected =
              SubSeq(OutputsOf(iterator.iterable.kind, iteration.contents), 1,
                     IF iterator.index < Len(iteration.contents)
                     THEN iterator.index ELSE Len(iteration.contents))
        /\ iteration.done <=> iterator.index > Len(iteration.contents)

\* an unmodified container of two elements was iterated to its end
C17_Witness ==
    /\ iteration.done /\ ~iteration.modified
    /\ Len(iteration.contents) = 2
    /\ iteration.collected = OutputsOf(iterator.iterable.kind, iteration.contents)
    /\ iterator.iterable.kind = "Map"

\* C19: once the list or map was modified while the iteration was in progress,
\* the modification is reported as a runtime error: next() does not go on
\* yielding elements or exhaustion as if nothing had happened.
C19_ModificationIsReported ==
    iteration.after_modification => iteration.last.type = "Err"

\* C18: an iterator and its copy are independent: advancing one of them never
\* changes what next() on the other returns, whatever the iterator is over.
C18_CopyIsIndependent ==
    copy_log.other_before = copy_log.other_after

(***************************************************************************)
(* CLAIMS: the lexer's string modes                                        *)
(***************************************************************************)

\* The number of { minus the number of } in src[from .. to].
RECURSIVE Balance(_, _, _)
Balance(src, from, to) ==
    IF to < from THEN 0
    ELSE Balance(src, from, to - 1)
         + (IF src[to] = "{" THEN 1 ELSE IF src[to] = "}" THEN -1 ELSE 0)

\* The first n characters of src end inside the expression that the ${ at
\* src[2..3] opens: its closing } is not among them.
InsideTemplateExpression(src, n) ==
    n >= 3 /\ \A m \in 3 .. n : Balance(src, 4, m) >= 0

\* C12: while the lexer is inside the expression of a ${ } template it is in
\* template-expression mode, or in inline-map mode while an inline map opened in
\* the expression is open, whatever the nesting depth; and the } that matches the
\* ${ , and only it, returns it to the mode of the string literal.
C12_TemplateModeFollowsBraces ==
    /\ InsideTemplateExpression(source, lexer.current_byte) =>
          /\ lexer.string_mode_stack # <<>>
          /\ Last(lexer.string_mode_stack) =
                IF Balance(source, 4, lexer.current_byte) = 0
                THEN TemplateExpression
                ELSE TemplateExpressionInlineMap
    /\ (/\ InsideTemplateExpression(source, lexer.current_byte - 1)
        /\ Balance(source, 4, lexer.current_byte) = -1) =>
          lexer.string_mode_stack = <<Literal("'")>>

\* ---- C15 ----
\* The binding level of an operator in the table of the specification, loosest first.
Level(op) ==
    CASE op = "Pipe"                                               -> 0
      [] op = "Or"                                                 -> 1
      [] op = "And"                                                -> 2
      [] op \in {"Equal", "NotEqual"}                              -> 3
      [] op \in {"Greater", "GreaterOrEqual", "Less", "LessOrEqual"} -> 4
      [] op \in {"Add", "Subtract"}                                -> 5
      [] op \in {"Multiply", "Divide", "Modulo"}                   -> 6

GroupsToTheRight(op) == Level(op) \in {3, 4}

\* The loosest operators of tokens[from..to]: the positions the expression splits at.
Loosest(tokens, from, to) ==
    LET ops == {i \in from .. to : i % 2 = 0}
    IN  {i \in ops : \A j \in ops : Level(tokens[i]) <= Level(tokens[j])}

SplitAt(positions, rightwards) ==
    CHOOSE i \in positions :
        \A j \in positions : IF rightwards THEN i <= j ELSE i >= j

\* The tree the table prescribes for tokens[from..to].
RECURSIVE Grouped(_, _, _)
GroupedAt(tokens, from, to, split) ==
    BinaryOp(tokens[split], Grouped(tokens, from, split - 1), Grouped(tokens, split + 1, to))

Grouped(tokens, from, to) ==
    IF from = to
    THEN Id(tokens[from])
    ELSE GroupedAt(tokens, from, to,
             SplitAt(Loosest(tokens, from, to),
                     \A i \in Loosest(tokens, from, to) : GroupsToTheRight(tokens[i])))

\* C15: a chain of binary operators parses to the tree of the precedence table: the
\* tighter level groups first, one level groups to the left, and the comparisons
\* (== != and < <= > >=) group to the right.
C15_ChainIsGroupedByTable ==
    (call = "Parser::parse" /\ script \in Chains)
        => /\ ast.ok
           /\ ast.entry_point = MainBlock(<<Grouped(script, 1, Len(script))>>, 0)

\* a < b <= c is parsed, as a < (b <= c), and a + b - c as (a + b) - c.
C15_Witness ==
    /\ call = "Parser::parse"
    /\ script = <<"x", "Less", "y", "LessOrEqual", "x">>
    /\ ast.entry_point.body[1] =
           BinaryOp("Less", Id("x"), BinaryOp("LessOrEqual", Id("y"), Id("x")))

\* ---- C13 and C14 ----
\* C13: in a source the parser accepts, every operator and every call argument that it
\* took from a following line as the continuation of an expression is on a line whose
\* indent is strictly greater than the indent of the line its statement starts on.
C13_ContinuationIsIndented ==
    (layout.called /\ layout.ok)
        => \A c \in layout.continued : c.indent > c.statement

\* C14: in a source the parser accepts, every else if and else attached to an if in
\* block form, and every catch and finally attached to a try, is on a line with the
\* indent of the line of that if or try.
C14_KeywordSharesIndent ==
    (layout.called /\ layout.ok)
        => \A a \in layout.attached : a.indent = a.owner_indent

\* ---- C20 ----
\* Is id assigned by a line of the body before the i-th?
AssignedBefore(body, i, id) ==
    \E j \in 1 .. i - 1 : body[j].kind \in {"Assign", "Increment"} /\ body[j].id = id

\* The lines of the body that write the element of the captured list.
WritesOfList(body) ==
    {i \in DOMAIN body : body[i].kind = "SetIndex" /\ ~AssignedBefore(body, i, body[i].id)}

\* The element the i-th line finds in the captured list: the one written by the last
\* line before it that writes the list, or the one the list has at the call.
ElementAt(body, i, elements) ==
    IF \E j \in WritesOfList(body) : j < i
    THEN body[CHOOSE j \in WritesOfList(body) :
                  j < i /\ \A k \in WritesOfList(body) : k < i => k <= j].value
    ELSE elements[1]

\* C20: in every call of the closure, a captured number read before the closure assigns
\* the name is the number the variable had when the closure was constructed, whatever
\* was assigned to the variable outside since; the call leaves the variables of the
\* enclosing frame as they are, whatever the closure assigns; and the element of the
\* captured list is shared: the closure reads the element the list has now, and the
\* element it writes is the one the enclosing frame finds.
C20_CapturesAreByValue ==
    [][CallFunction =>
          /\ outer' = outer
          /\ \A i \in DOMAIN callee.body :
                 /\ (callee.body[i].kind \in {"Id", "Nested"}
                        /\ ~AssignedBefore(callee.body, i, callee.body[i].id))
                    => call_log'.results[i] = call_log.created[callee.body[i].id]
                 /\ (callee.body[i].kind = "Increment"
                        /\ ~AssignedBefore(callee.body, i, callee.body[i].id))
                    => call_log'.results[i] = Number(call_log.created[callee.body[i].id].n + 1)
                 /\ (callee.body[i].kind = "Index" /\ call_log.created["data"] = ListRef
                        /\ ~AssignedBefore(callee.body, i, "data"))
                    => call_log'.results[i] = Number(ElementAt(callee.body, i, heap))
          /\ IF call_log.created["data"] = ListRef /\ WritesOfList(callee.body) # {}
             THEN heap' = <<ElementAt(callee.body, Len(callee.body) + 1, heap)>>
             ELSE heap' = heap]_vars

\* The closure reads x and writes the list; x was assigned another number outside
\* after the closure was constructed; the call returned the number x had then, and
\* the enclosing frame finds the element the closure wrote.
C20_Witness ==
    /\ callee.body = <<BodyLine("Id", "x", 0), BodyLine("SetIndex", "data", 1)>>
    /\ call_log.count > 0
    /\ outer["x"] # call_log.created["x"]
    /\ call_log.results[1] = call_log.created["x"]
    /\ outer["data"] = ListRef /\ heap = <<1>>

(***************************************************************************)
(* CLAIMS: locating a module                                               *)
(***************************************************************************)
\* The file name "<name>.koto": the last component of the name with ".koto" appended.
koto_file(name) ==
    [name EXCEPT ![Len(name)] =
        CASE @ = "a"    -> "a.koto"
          [] @ = "a.x"  -> "a.x.koto"
          [] @ = "b"    -> "b.koto"
          [] @ = "m"    -> "m.koto"
          [] @ = "main" -> "main.koto"
          [] OTHER      -> "zz.koto"]

\* C21: for every module name compile_module loads <dir>/<name>.koto when it exists,
\* otherwise <dir>/<name>/main.koto, and fails with an I/O error when neither
\* exists, <dir> being the parent of the loaded-from file, the loaded-from
\* directory, or the working directory when no path is given.
C21_ModuleIsLocated ==
    (last_load.name # <<>> /\ search_directory(last_load.load_from_path) # NotFound) =>
        IF exists(search_directory(last_load.load_from_path) \o koto_file(last_load.name))
        THEN last_load.key = search_directory(last_load.load_from_path) \o koto_file(last_load.name)
        ELSE IF exists(search_directory(last_load.load_from_path) \o last_load.name \o <<"main.koto">>)
             THEN last_load.key =
                      search_directory(last_load.load_from_path) \o last_load.name \o <<"main.koto">>
             ELSE ~last_load.ok /\ ~last_load.read

\* The same for the names without a dot.
C21_PlainNames ==
    last_load.name # <<"a.x">> => C21_ModuleIsLocated

(***************************************************************************)
(* CLAIMS: what changes the cache                                          *)
(***************************************************************************)
\* C29: the chunk cache changes only when a compile_module call succeeds in
\* compiling a module that was not cached, and then exactly that entry is added;
\* a failing compile_module and every compile_script and compile_repl call leave
\* the cache as it was.
C29_CacheChangesOnlyOnNewModule ==
    [][ /\ chunks' # chunks =>
            /\ last_load'.call = "compile_module"
            /\ last_load'.ok /\ last_load'.read
            /\ ~Cached(last_load'.key)
            /\ chunks' = chunks \cup {[key |-> last_load'.key, chunk |-> last_load'.chunk]}
        /\ (last_load'.call \in {"compile_script", "compile_repl"} \/ ~last_load'.ok) =>
            chunks' = chunks ]_vars

\* A failed compile_module of a file that was read, and a compile_script call,
\* with modules in the cache.
C29_Witness ==
    /\ Cardinality(chunks) >= 2
    /\ \/ last_load.call = "compile_module" /\ ~last_load.ok /\ last_load.read
       \/ last_load.call = "compile_script"

(***************************************************************************)
(* CLAIMS: keywords and identifiers                                        *)
(***************************************************************************)
\* C22: an identifier-shaped word that immediately follows a `.` is lexed as an Id
\* token even when it spells a keyword.
C22_WordAfterDotIsId ==
    [][ (lexer.previous_token = "Dot" /\ At(source, lexer.current_byte + 1) \in IdStart) =>
            lexer'.previous_token = "Id" ]_vars

\* The same for the words other than else.
C22_ExceptElse ==
    [][ ( /\ lexer.previous_token = "Dot"
          /\ At(source, lexer.current_byte + 1) \in IdStart
          /\ ~StartsWith(source, lexer.current_byte, <<"e", "l", "s", "e">>) ) =>
            lexer'.previous_token = "Id" ]_vars

KeywordTokens == {k[2] : k \in Keywords} \cup {"Else", "ElseIf"}

\* C23: a keyword token is produced only for a whole word: the character after a
\* keyword token does not continue an identifier, and ElseIf is produced only for
\* `else` followed by the whole word `if`.
C23_KeywordIsWholeWord ==
    lexer.previous_token \in KeywordTokens =>
        /\ At(source, lexer.current_byte + 1) \notin IdContinue
        /\ lexer.previous_token = "ElseIf" =>
               TokenLexerSlice(lexer, source) = <<"e", "l", "s", "e", " ", "i", "f">>

\* The same for the keyword tokens other than ElseIf.
C23_ExceptElseIf ==
    lexer.previous_token \in KeywordTokens \ {"ElseIf"} =>
        At(source, lexer.current_byte + 1) \notin IdContinue

(***************************************************************************)
(* CLAIMS: multi-line comments                                             *)
(***************************************************************************)
\* Where the comment ends whose text after the opening `#-` starts at index i, depth
\* comments being open: the offset just past the `-#` that closes it, 0 for none.
RECURSIVE comment_end(_, _, _)
comment_end(src, i, depth) ==
    IF i > Len(src)
    THEN 0
    ELSE IF At(src, i) = "#" /\ At(src, i + 1) = "-"
         THEN comment_end(src, i + 2, depth + 1)
         ELSE IF At(src, i) = "-" /\ At(src, i + 1) = "#"
              THEN IF depth = 1 THEN i + 1 ELSE comment_end(src, i + 2, depth - 1)
              ELSE comment_end(src, i + 1, depth)

\* C24: a multi-line comment opened by `#-` ends at the `-#` that closes it after
\* every `#-` opened inside it has been closed, and is one CommentMulti token; if
\* the source ends before that `-#`, the token is Error.
C24_CommentsNest ==
    (lexer.previous_token # NoToken
        /\ StartsWith(source, lexer.previous_byte, <<"#", "-">>)) =>
        IF comment_end(source, lexer.previous_byte + 3, 1) = 0
        THEN lexer.previous_token = "Error"
        ELSE /\ lexer.previous_token = "CommentMulti"
             /\ lexer.current_byte = comment_end(source, lexer.previous_byte + 3, 1)

\* The same for the comments whose text does not begin with `#`.
C24_TextNotStartingWithHash ==
    At(source, lexer.previous_byte + 3) # "#" => C24_CommentsNest

(***************************************************************************)
(* CLAIMS: the lexer comes to the end of the source                        *)
(***************************************************************************)
\* C28: every token next() returns, Error tokens included, consumes at least one
\* byte of the source, so that next() returns None after finitely many tokens.
C28_EveryTokenConsumes ==
    [][ (returned'.count > returned.count /\ returned'.plain # NoToken) =>
            plain'.current_byte > plain.current_byte ]_vars

\* The same for the tokens other than Error.
C28_ExceptError ==
    [][ (returned'.count > returned.count /\ returned'.plain \notin {NoToken, "Error"}) =>
            plain'.current_byte > plain.current_byte ]_vars

(***************************************************************************)
(* CLAIMS: a name read and then assigned; nested captures                  *)
(***************************************************************************)
\* The names a produced function reads before it assigns them.
ReadThenAssigned(f) ==
    ReadsBeforeAssigned(f.body, ArgsOf(f), {}).reads \cap AssignedIn(f.body)

\* C25: when a function reads an identifier before assigning it, the identifier is
\* in the function's accessed_non_locals and is counted as a local of the function.
C25_ReadThenAssignedIsBoth ==
    \A f \in ast.functions :
        ReadThenAssigned(f) # {} =>
            /\ ReadThenAssigned(f) \subseteq f.accessed_non_locals
            /\ f.local_count = Cardinality(ArgsOf(f) \cup AssignedIn(f.body))

\* Whether an assignment is the right side of an operator somewhere in the node
\* (as in x + x = y, where the target of the assignment has been read before).
RECURSIVE AssignsUnderOperator(_)
AssignsUnderOperator(n) ==
    CASE n.node = "NamedCall" -> AssignsUnderOperator(n.args[1])
      [] n.node = "BinaryOp" ->
            n.rhs.node = "Assign" \/ AssignsUnderOperator(n.lhs) \/ AssignsUnderOperator(n.rhs)
      [] n.node = "Assign" -> AssignsUnderOperator(n.expression)
      [] OTHER -> FALSE

\* The same for the functions in which no assignment is the right side of an operator.
C25_AssignmentNotUnderOperator ==
    \A f \in ast.functions :
        (ReadThenAssigned(f) # {} /\ ~AssignsUnderOperator(f.body)) =>
            /\ ReadThenAssigned(f) \subseteq f.accessed_non_locals
            /\ f.local_count = Cardinality(ArgsOf(f) \cup AssignedIn(f.body))

\* A function whose body is x = x + ... has been produced.
C25_Example ==
    \E f \in ast.functions :
        /\ f.body.node = "Assign" /\ f.body.expression.node = "BinaryOp"
        /\ f.body.target.id \in ReadThenAssigned(f)

\* The functions created by a node: the Function nodes in it that are not inside the
\* body of another function of the node.
RECURSIVE FunctionsIn(_)
FunctionsIn(n) ==
    CASE n.node = "Function" -> {n}
      [] n.node = "NamedCall" -> FunctionsIn(n.args[1])
      [] n.node = "BinaryOp" -> FunctionsIn(n.lhs) \cup FunctionsIn(n.rhs)
      [] n.node = "Assign" -> FunctionsIn(n.expression)
      [] OTHER -> {}

\* C26: a name captured by a nested function that the enclosing function has neither
\* as an argument nor as a local assignment is in the enclosing function's
\* accessed_non_locals too (and so, level by level, through any depth of nesting).
C26_NestedCapturesPropagate ==
    \A f \in ast.functions :
        \A nested \in FunctionsIn(f.body) :
            nested.accessed_non_locals \ (ArgsOf(f) \cup AssignedIn(f.body))
                \subseteq f.accessed_non_locals

\* C26 witness: a function in a function in a function captures a name, which the
\* two functions around it capture too.
C26_Witness ==
    \E f \in ast.functions :
        \E nested \in FunctionsIn(f.body) :
            \E innermost \in FunctionsIn(nested.body) :
                /\ innermost.accessed_non_locals # {}
                /\ innermost.accessed_non_locals \subseteq nested.accessed_non_locals
                /\ innermost.accessed_non_locals \subseteq f.accessed_non_locals

(***************************************************************************)
(* CLAIMS: the frame stack                                                 *)
(***************************************************************************)
\* How many functions have their body open at the i-th token of a parsed one-line
\* source: a body runs to the end of the line, and each function has two bars.
FunctionsOpenAt(i) == Cardinality({j \in 1 .. (i - 1) : script[j] = "Function"}) \div 2

ValuesOut ==
    [i \in {i \in DOMAIN deliveries : deliveries[i].output # None} |-> deliveries[i].output]

Returning == {t \in Threads : callers[t].pc = "return" /\ callers[t].output # None}

=============================================================================
